---- MODULE Spec2Model ----
(***************************************************************************)
(* A model of the billing core of django-customer-billing: the ledger      *)
(* (charges, transactions, invoices), invoice generation and fund matching *)
(* as implemented in billing/models.py and billing/actions/accounts.py,    *)
(* and the payment of an invoice with the credit cards of its account as   *)
(* implemented in billing/actions/invoices.py.                             *)
(*                                                                         *)
(* Rows are kept in one sequence per table; the index of a row is its      *)
(* primary key.  Money amounts are integers (minor units).                 *)
(***************************************************************************)
EXTENDS Integers, Sequences, FiniteSets, TLC

\* ------------------------------------------------------------------ bounds
\* Charges and transactions are added (and charges reversed) while the ledger
\* holds fewer than MaxRows of them; an invoice needs a charge of its own, and a
\* carried-forward pair an invoice, so these are bounded with them.
MaxRows == 3

\* Concurrent calls start from a ledger with at most MaxFunds unassigned funds.
MaxFunds == 2

Accounts == {1}
Currencies == {"CHF", "EUR"}
\* The inputs of the environment: (amount, currency) of a new charge or credit,
\* (amount, currency, success, linked to a pending invoice) of a new transaction.
\* Invoice generation is exercised with charges and credits in two currencies,
\* fund matching with charges, credits, payments and failed payments.
InvoicingCharges == {<<1, "CHF">>, <<-1, "CHF">>, <<-2, "CHF">>,
                     <<1, "EUR">>, <<-1, "EUR">>}
MatchingCharges == {<<1, "CHF">>, <<2, "CHF">>, <<-1, "CHF">>, <<-2, "CHF">>}
MatchingTransactions == {<<1, "CHF", TRUE, FALSE>>, <<2, "CHF", TRUE, FALSE>>,
                         <<1, "CHF", FALSE, FALSE>>, <<1, "CHF", TRUE, TRUE>>}
DueDates == {1, 2}
Procs == {1, 2}

\* --------------------------------------------------------------- constants
NoInvoice == 0
PENDING == "PENDING"
PAID == "PAID"
CANCELLED == "CANCELLED"
CARRIED_FORWARD == "CARRIED_FORWARD"
CREDIT_REMAINING == "CREDIT_REMAINING"
REVERSAL_PRODUCT_CODE == "REVERSAL"
ACHARGE == "ACHARGE"

VARIABLES
    charges,        \* table billing_charge
    transactions,   \* table billing_transaction
    invoices,       \* table billing_invoice
    last,           \* the call that just ended: its name, argument, result and log
    procs,          \* the in-flight assign_funds_to_invoice calls (concurrent runs)
    accounts,       \* table billing_account: account id -> its row
    credit_cards,   \* table billing_creditcard: account id -> its cards
    event_logs,     \* table billing_eventlog, in insertion order
    psp_registry,   \* billing.psp._registry: scheme -> registered PSP
    psp_calls,      \* the calls the registered PSPs have received, in order
    product_properties  \* table billing_productproperty

account_vars == <<accounts, credit_cards, event_logs>>
psp_vars == <<psp_registry, psp_calls>>
other_vars == <<account_vars, psp_vars, product_properties>>

vars == <<charges, transactions, invoices, last, procs, accounts, credit_cards, event_logs,
          psp_registry, psp_calls, product_properties>>

\* The specifications of the ledger write none of the tables above, nor the
\* registry, and read the account's status and cards as inputs of the call.
LedgerOnly ==
    /\ accounts = <<>> /\ credit_cards = <<>> /\ event_logs = <<>>
    /\ psp_registry = <<>> /\ psp_calls = <<>>
    /\ product_properties = <<>>

\* The database as one value, so that the operations are functions of it.
DB == [charges |-> charges, transactions |-> transactions, invoices |-> invoices]
DBn == [charges |-> charges', transactions |-> transactions', invoices |-> invoices']

\* auto_now_add: creation stamps grow with every row written.
Now(db) == Len(db.charges) + Len(db.transactions) + 1

Abs(n) == IF n < 0 THEN -n ELSE n

\* ------------------------------------------------------------------- Total
RECURSIVE SumAmounts(_, _)
SumAmounts(tbl, S) ==
    IF S = {} THEN 0
    ELSE LET x == CHOOSE y \in S : TRUE
         IN tbl[x].amount + SumAmounts(tbl, S \ {x})

\* total_amount: GROUP BY currency, one Money per currency present in the rows.
total_amount(tbl, S) ==
    [cur \in {tbl[x].currency : x \in S} |->
        SumAmounts(tbl, {x \in S : tbl[x].currency = cur})]

\* Total.__getitem__: a missing currency reads as zero.
TotalGet(t, cur) == IF cur \in DOMAIN t THEN t[cur] ELSE 0

\* Total.__add__: the union of the currencies, zero results kept.
TotalAdd(a, b) ==
    [cur \in (DOMAIN a) \cup (DOMAIN b) |->
        IF cur \in DOMAIN b THEN b[cur] + TotalGet(a, cur) ELSE a[cur]]

TotalNeg(a) == [cur \in DOMAIN a |-> -a[cur]]

TotalSub(a, b) == TotalAdd(a, TotalNeg(b))

TotalBool(a) == \E cur \in DOMAIN a : a[cur] /= 0

TotalEq(a, b) == ~TotalBool(TotalSub(a, b))

\* ---------------------------------------------------------------- queries
\* ChargeManager.get_queryset: soft-deleted charges are excluded.
AllChargesMutant(db) == DOMAIN db.charges
ChargeObjects(db) == {c \in DOMAIN db.charges : ~db.charges[c].deleted}

\* ChargeQuerySet.uninvoiced
InvoicedTooMutant(db, S, account_id) ==
    {c \in S : db.charges[c].account = account_id}
ChargeUninvoiced(db, S, account_id) ==
    {c \in S : db.charges[c].invoice = NoInvoice /\ db.charges[c].account = account_id}

\* ChargeQuerySet.charges
AnySignMutant(db, S) == S
ChargesQS(db, S) == {c \in S : db.charges[c].amount > 0}

\* ChargeQuerySet.credits
CreditsQS(db, S) == {c \in S : db.charges[c].amount < 0}

\* ChargeQuerySet.in_currency
NoCurrencyFilterMutant(db, S, cur) == S
ChargeInCurrency(db, S, cur) == {c \in S : db.charges[c].currency = cur}

\* OnlySuccessfulTransactionsManager.get_queryset
FailedTooMutant(db) == DOMAIN db.transactions
Successful(db) == {t \in DOMAIN db.transactions : db.transactions[t].success}

\* TransactionQuerySet.uninvoiced
TxUninvoiced(db, S, account_id) ==
    {t \in S : db.transactions[t].invoice = NoInvoice
               /\ db.transactions[t].account = account_id}

\* TransactionQuerySet.payments
PaymentsQS(db, S) == {t \in S : db.transactions[t].amount > 0}

\* TransactionQuerySet.in_currency
TxInCurrency(db, S, cur) == {t \in S : db.transactions[t].currency = cur}

\* order_by('created'): the rows of S as a sequence, oldest first.
RECURSIVE OrderByCreated(_, _)
OrderByCreated(tbl, S) ==
    IF S = {} THEN <<>>
    ELSE LET x == CHOOSE y \in S : \A z \in S : tbl[y].created <= tbl[z].created
         IN <<x>> \o OrderByCreated(tbl, S \ {x})

\* Invoice.due: all linked charges minus all successful linked transactions.
InvoiceDue(db, i) ==
    TotalSub(total_amount(db.charges,
                          {c \in ChargeObjects(db) : db.charges[c].invoice = i}),
             total_amount(db.transactions,
                          {t \in Successful(db) : db.transactions[t].invoice = i}))

\* Account.balance (as_of None): successful transactions minus charges.
AccountBalance(db, account_id) ==
    TotalSub(total_amount(db.transactions,
                          {t \in Successful(db) : db.transactions[t].account = account_id}),
             total_amount(db.charges,
                          {c \in ChargeObjects(db) : db.charges[c].account = account_id}))

\* -------------------------------------------------------------------- rows
NewCharge(db, account_id, amount, cur, invoice_id, code) ==
    [account |-> account_id, amount |-> amount, currency |-> cur,
     invoice |-> invoice_id, product_code |-> code, deleted |-> FALSE,
     reverses |-> 0, created |-> Now(db)]

NewTransaction(db, account_id, amount, cur, invoice_id, success) ==
    [account |-> account_id, amount |-> amount, currency |-> cur,
     invoice |-> invoice_id, success |-> success, created |-> Now(db)]

NewInvoice(db, account_id, due_date) ==
    [account |-> account_id, due_date |-> due_date, status |-> PENDING,
     created |-> Now(db)]

\* ------------------------------------------------------------- operations
\* Every operation is a function of the database: it yields the new database,
\* what the call returns and the log lines it writes.

\* add_charge (valid product code, no product properties).
NoReversesMutant(db, account_id, amount, cur, reverses_id, code) ==
    [db EXCEPT !.charges =
        Append(@, NewCharge(db, account_id, amount, cur, NoInvoice, code))]
add_charge(db, account_id, amount, cur, reverses_id, code) ==
    [db EXCEPT !.charges =
        Append(@, [NewCharge(db, account_id, amount, cur, NoInvoice, code)
                     EXCEPT !.reverses = reverses_id])]

\* The host application records a payment attempt made outside the core.
record_transaction(db, account_id, amount, cur, invoice_id, success) ==
    [db EXCEPT !.transactions =
        Append(@, NewTransaction(db, account_id, amount, cur, invoice_id, success))]

\* cancel_charge: "error" when already cancelled, else soft-delete or reversal.
CancelAgainMutant(db, charge_id) ==
    LET charge == db.charges[charge_id] IN
    IF charge.deleted
        THEN [db |-> db, result |-> "ChargeAlreadyCancelledError"]
    ELSE IF charge.invoice = NoInvoice
        THEN [db |-> [db EXCEPT !.charges[charge_id].deleted = TRUE], result |-> "ok"]
    ELSE [db |-> add_charge(db, charge.account, -charge.amount, charge.currency,
                            charge_id, REVERSAL_PRODUCT_CODE),
          result |-> "ok"]
cancel_charge(db, charge_id) ==
    LET charge == db.charges[charge_id] IN
    IF charge.deleted
        THEN [db |-> db, result |-> "ChargeAlreadyCancelledError"]
    ELSE IF \E c \in DOMAIN db.charges : db.charges[c].reverses = charge_id
        THEN [db |-> db, result |-> "ChargeAlreadyCancelledError"]
    ELSE IF charge.invoice = NoInvoice
        THEN [db |-> [db EXCEPT !.charges[charge_id].deleted = TRUE], result |-> "ok"]
    ELSE [db |-> add_charge(db, charge.account, -charge.amount, charge.currency,
                            charge_id, REVERSAL_PRODUCT_CODE),
          result |-> "ok"]

\* create_invoices, line 69: the charges that make money due.
NetDueMutant(db, account_id) == ChargeUninvoiced(db, ChargeObjects(db), account_id)
due_charges(db, account_id) ==
    ChargesQS(db, ChargeUninvoiced(db, ChargeObjects(db), account_id))

\* create_invoices, lines 73-81: one pass of the loop per Money of the total, in
\* the order the database returned the groups.
RECURSIVE create_invoices_loop(_, _, _, _, _)
create_invoices_loop(db, account_id, due_date, monies, made) ==
    IF monies = <<>> THEN [db |-> db, result |-> made]
    ELSE LET amount_due == Head(monies)
             id == Len(db.invoices) + 1
             db1 == [db EXCEPT !.invoices = Append(@, NewInvoice(db, account_id, due_date))]
             hit == ChargeInCurrency(db1, due_charges(db1, account_id), amount_due.currency)
             db2 == [db1 EXCEPT !.charges =
                        [c \in DOMAIN @ |->
                            IF c \in hit THEN [@[c] EXCEPT !.invoice = id] ELSE @[c]]]
         IN IF amount_due.amount > 0
            THEN create_invoices_loop(db2, account_id, due_date, Tail(monies),
                                      Append(made, id))
            ELSE create_invoices_loop(db, account_id, due_date, Tail(monies), made)

\* The orders in which a query without ORDER BY may return the rows of S.
Perms(S) ==
    {f \in [1..Cardinality(S) -> S] : \A i, j \in DOMAIN f : i /= j => f[i] /= f[j]}

create_invoices(db, account_id, due_date, order) ==
    LET total == total_amount(db.charges, due_charges(db, account_id))
        monies == [k \in DOMAIN order |->
                     [currency |-> order[k], amount |-> total[order[k]]]]
    IN create_invoices_loop(db, account_id, due_date, monies, <<>>)

\* assign_funds_to_invoice, lines 183-195: credits first, then payments, each
\* oldest first.
CollectCredits(db, account_id, cur) ==
    LET S == ChargeInCurrency(db,
                 ChargeUninvoiced(db, CreditsQS(db, ChargeObjects(db)), account_id), cur)
        ordered == OrderByCreated(db.charges, S)
    IN [k \in DOMAIN ordered |-> [kind |-> "Charge", id |-> ordered[k]]]

CollectPayments(db, account_id, cur) ==
    LET S == TxInCurrency(db,
                 TxUninvoiced(db, PaymentsQS(db, Successful(db)), account_id), cur)
        ordered == OrderByCreated(db.transactions, S)
    IN [k \in DOMAIN ordered |-> [kind |-> "Transaction", id |-> ordered[k]]]

PaymentsFirstMutant(db, account_id, cur) ==
    CollectPayments(db, account_id, cur) \o CollectCredits(db, account_id, cur)
CollectFunds(db, account_id, cur) ==
    CollectCredits(db, account_id, cur) \o CollectPayments(db, account_id, cur)

FundAmount(db, fund) ==
    IF fund.kind = "Charge" THEN db.charges[fund.id].amount
    ELSE db.transactions[fund.id].amount

\* fund.invoice_id = invoice_id; fund.save()
SaveFund(db, fund, invoice_id) ==
    IF fund.kind = "Charge"
    THEN [db EXCEPT !.charges[fund.id].invoice = invoice_id]
    ELSE [db EXCEPT !.transactions[fund.id].invoice = invoice_id]

\* assign_funds_to_invoice, lines 196-207: the loop over the funds.
RECURSIVE AssignLoop(_, _, _, _, _, _)
AssignLoop(db, invoice_id, funds, k, invoice_due_amount, log) ==
    IF k > Len(funds)
    THEN [db |-> db, invoice_due_amount |-> invoice_due_amount, log |-> log]
    ELSE LET fund == funds[k]
             contributed_amount == Abs(FundAmount(db, fund))
             db1 == SaveFund(db, fund, invoice_id)
             rest == invoice_due_amount - contributed_amount
             log1 == Append(log, [fund_type |-> fund.kind, fund_id |-> fund.id,
                                  contributed_amount |-> contributed_amount])
         IN IF rest <= 0
            THEN [db |-> db1, invoice_due_amount |-> rest, log |-> log1]
            ELSE AssignLoop(db1, invoice_id, funds, k + 1, rest, log1)

\* assign_funds_to_invoice, lines 212-215.
NoSaveMutant(db, invoice_id) == db
MarkPaid(db, invoice_id) == [db EXCEPT !.invoices[invoice_id].status = PAID]

\* assign_funds_to_invoice, lines 220-228: the carried-forward pair.
WrongCreditMutant(db, account_id, invoice_id, overpayment, cur) ==
    LET db1 == [db EXCEPT !.charges = Append(@,
                   NewCharge(db, account_id, overpayment, cur, invoice_id,
                             CARRIED_FORWARD))]
    IN [db1 EXCEPT !.charges = Append(@,
           NewCharge(db1, account_id, overpayment, cur, NoInvoice, CREDIT_REMAINING))]
NoCreditMutant(db, account_id, invoice_id, overpayment, cur) ==
    [db EXCEPT !.charges = Append(@,
        NewCharge(db, account_id, overpayment, cur, invoice_id, CARRIED_FORWARD))]
CarryForward(db, account_id, invoice_id, overpayment, cur) ==
    LET db1 == [db EXCEPT !.charges = Append(@,
                   NewCharge(db, account_id, overpayment, cur, invoice_id,
                             CARRIED_FORWARD))]
    IN [db1 EXCEPT !.charges = Append(@,
           NewCharge(db1, account_id, -overpayment, cur, NoInvoice, CREDIT_REMAINING))]

\* assign_funds_to_invoice, lines 164-166: the precondition on the status.
OnlyPaidMutant(invoice) == invoice.status = PAID
StatusIsNotPending(invoice) == invoice.status /= PENDING

\* assign_funds_to_invoice, run from start to end with no other call in between.
assign_funds_to_invoice(db, invoice_id) ==
    LET invoice == db.invoices[invoice_id]
        account_id == invoice.account
        due == InvoiceDue(db, invoice_id)
        invoice_due_currency == CHOOSE cur \in DOMAIN due : TRUE
        looped == IF due[invoice_due_currency] > 0
                  THEN AssignLoop(db, invoice_id,
                                  CollectFunds(db, account_id, invoice_due_currency),
                                  1, due[invoice_due_currency], <<>>)
                  ELSE [db |-> db, invoice_due_amount |-> due[invoice_due_currency],
                        log |-> <<>>]
        rest == looped.invoice_due_amount
        db2 == IF rest <= 0 THEN MarkPaid(looped.db, invoice_id) ELSE looped.db
        db3 == IF rest < 0
               THEN CarryForward(db2, account_id, invoice_id, Abs(rest),
                                 invoice_due_currency)
               ELSE db2
    IN IF StatusIsNotPending(invoice)
           THEN [db |-> db, result |-> FALSE, log |-> <<>>]
       ELSE IF Cardinality(DOMAIN due) /= 1
           THEN [db |-> db, result |-> FALSE, log |-> <<>>]
       ELSE [db |-> db3,
             result |-> (IF rest <= 0 THEN PAID ELSE invoice.status) = PAID,
             log |-> looped.log]

\* assign_funds_to_account_pending_invoices, lines 134-139: the invoices in the
\* order the query returned them, until one is not paid.
RECURSIVE NoBreakMutant(_, _, _, _)
NoBreakMutant(db, order, k, paid_invoice_ids) ==
    IF k > Len(order) THEN [db |-> db, result |-> paid_invoice_ids]
    ELSE LET r == assign_funds_to_invoice(db, order[k])
         IN NoBreakMutant(r.db, order, k + 1,
                          IF r.result THEN Append(paid_invoice_ids, order[k])
                          ELSE paid_invoice_ids)
RECURSIVE CascadeLoop(_, _, _, _)
CascadeLoop(db, order, k, paid_invoice_ids) ==
    IF k > Len(order) THEN [db |-> db, result |-> paid_invoice_ids]
    ELSE LET r == assign_funds_to_invoice(db, order[k])
         IN IF r.result
            THEN CascadeLoop(r.db, order, k + 1, Append(paid_invoice_ids, order[k]))
            ELSE [db |-> r.db, result |-> paid_invoice_ids]

\* filter(status=PENDING, account_id=...).order_by('due_date'): any order of the
\* rows that is ascending in due_date.
PendingByDueDate(db, account_id) ==
    LET S == {i \in DOMAIN db.invoices :
                 db.invoices[i].status = PENDING /\ db.invoices[i].account = account_id}
    IN {f \in Perms(S) :
           \A i, j \in DOMAIN f :
               i < j => db.invoices[f[i]].due_date <= db.invoices[f[j]].due_date}

assign_funds_to_account_pending_invoices(db, order) == CascadeLoop(db, order, 1, <<>>)

\* Invoice.cancel, a transition from PENDING only, and save().
invoice_cancel(db, invoice_id) == [db EXCEPT !.invoices[invoice_id].status = CANCELLED]

Idle == [pc |-> "idle"]

NoCall == [op |-> "none"]

Init ==
    /\ charges = <<>>
    /\ transactions = <<>>
    /\ invoices = <<>>
    /\ last = NoCall
    /\ procs = [p \in Procs |-> Idle]
    /\ LedgerOnly

\* ----------------------------------------------------------------- actions
Store(db) ==
    /\ charges' = db.charges
    /\ transactions' = db.transactions
    /\ invoices' = db.invoices

Fits(db) == Len(db.charges) + Len(db.transactions) <= MaxRows

AddCharge(account_id, amount, cur) ==
    LET db == add_charge(DB, account_id, amount, cur, 0, ACHARGE) IN
    /\ last = NoCall
    /\ Fits(db)
    /\ Store(db)
    /\ last' = NoCall
    /\ UNCHANGED procs
    /\ UNCHANGED other_vars

RecordTransaction(account_id, amount, cur, invoice_id, success) ==
    LET db == record_transaction(DB, account_id, amount, cur, invoice_id, success) IN
    /\ last = NoCall
    /\ Fits(db)
    /\ Store(db)
    /\ last' = NoCall
    /\ UNCHANGED procs
    /\ UNCHANGED other_vars

CancelCharge(charge_id) ==
    LET r == cancel_charge(DB, charge_id) IN
    /\ last = NoCall
    /\ Fits(r.db)
    /\ Store(r.db)
    /\ last' = [op |-> "cancel_charge", arg |-> charge_id, result |-> r.result]
    /\ UNCHANGED procs
    /\ UNCHANGED other_vars

CreateInvoices(account_id, due_date) ==
    /\ last = NoCall
    /\ \E order \in Perms(DOMAIN total_amount(charges, due_charges(DB, account_id))) :
        LET r == create_invoices(DB, account_id, due_date, order) IN
        /\ Store(r.db)
        /\ last' = [op |-> "create_invoices", arg |-> account_id, due_date |-> due_date,
                    result |-> r.result]
        /\ UNCHANGED procs
    /\ UNCHANGED other_vars

AssignFundsToInvoice(invoice_id) ==
    LET r == assign_funds_to_invoice(DB, invoice_id) IN
    /\ last = NoCall
    /\ Store(r.db)
    /\ last' = [op |-> "assign_funds_to_invoice", arg |-> invoice_id,
                result |-> r.result, log |-> r.log]
    /\ UNCHANGED procs
    /\ UNCHANGED other_vars

AssignFundsToAccountPendingInvoices(account_id) ==
    /\ last = NoCall
    /\ \E order \in PendingByDueDate(DB, account_id) :
        LET r == assign_funds_to_account_pending_invoices(DB, order) IN
        /\ Store(r.db)
        /\ last' = [op |-> "assign_funds_to_account_pending_invoices",
                    arg |-> account_id, order |-> order, result |-> r.result]
        /\ UNCHANGED procs
    /\ UNCHANGED other_vars

CancelInvoice(invoice_id) ==
    /\ last = NoCall
    /\ invoices[invoice_id].status = PENDING
    /\ Store(invoice_cancel(DB, invoice_id))
    /\ last' = NoCall
    /\ UNCHANGED procs
    /\ UNCHANGED other_vars

\* The call returns: its caller takes the result, and the next call may start.
Return ==
    /\ last /= NoCall
    /\ last' = NoCall
    /\ UNCHANGED <<charges, transactions, invoices, procs>>
    /\ UNCHANGED other_vars

PayableInvoices(account_id) ==
    {i \in DOMAIN invoices : invoices[i].account = account_id /\ invoices[i].status = PENDING}

\* Fund matching: charges, credits and payments are recorded, invoiced and matched.
Next ==
    \/ \E a \in Accounts, in \in MatchingCharges : AddCharge(a, in[1], in[2])
    \/ \E a \in Accounts, in \in MatchingTransactions :
           \E i \in (IF in[4] THEN PayableInvoices(a) ELSE {NoInvoice}) :
               RecordTransaction(a, in[1], in[2], i, in[3])
    \/ \E a \in Accounts, d \in DueDates : CreateInvoices(a, d)
    \/ \E i \in DOMAIN invoices : AssignFundsToInvoice(i)
    \/ \E a \in Accounts : AssignFundsToAccountPendingInvoices(a)
    \/ Return

Spec == Init /\ [][Next]_vars

\* Invoice generation: charges and credits in two currencies are added, cancelled,
\* invoiced and matched (with credits, there being no payment).
InvoicingNext ==
    \/ \E a \in Accounts, in \in InvoicingCharges : AddCharge(a, in[1], in[2])
    \/ \E c \in DOMAIN charges : CancelCharge(c)
    \/ \E a \in Accounts, d \in DueDates : CreateInvoices(a, d)
    \/ \E i \in DOMAIN invoices : AssignFundsToInvoice(i)
    \/ Return

InvoicingSpec == Init /\ [][InvoicingNext]_vars

\* The account-wide matching over invoices of two currencies.
CascadeCharges == {<<1, "CHF">>, <<2, "CHF">>, <<1, "EUR">>}
CascadeTransactions == {<<1, "CHF">>, <<1, "EUR">>}

CascadeNext ==
    \/ \E a \in Accounts, in \in CascadeCharges : AddCharge(a, in[1], in[2])
    \/ \E a \in Accounts, in \in CascadeTransactions :
           RecordTransaction(a, in[1], in[2], NoInvoice, TRUE)
    \/ \E a \in Accounts, d \in DueDates : CreateInvoices(a, d)
    \/ \E a \in Accounts : AssignFundsToAccountPendingInvoices(a)
    \/ Return

CascadeSpec == Init /\ [][CascadeNext]_vars

\* Fund matching called on invoices of every status.
PreconditionCharges == {<<1, "CHF">>, <<-1, "CHF">>}
PreconditionTransactions == {<<1, "CHF">>, <<2, "CHF">>}

PreconditionNext ==
    \/ \E a \in Accounts, in \in PreconditionCharges : AddCharge(a, in[1], in[2])
    \/ \E a \in Accounts, in \in PreconditionTransactions :
           RecordTransaction(a, in[1], in[2], NoInvoice, TRUE)
    \/ \E a \in Accounts, d \in DueDates : CreateInvoices(a, d)
    \/ \E i \in DOMAIN invoices : CancelInvoice(i)
    \/ \E i \in DOMAIN invoices : AssignFundsToInvoice(i)
    \/ Return

PreconditionSpec == Init /\ [][PreconditionNext]_vars

\* Fund matching with entries it must not use: (account, amount, currency) of a
\* charge, (account, amount, currency, success, linked to an invoice) of a
\* transaction.
EligibleCharges ==
    {<<1, 1, "CHF">>, <<1, -1, "CHF">>, <<2, -1, "CHF">>, <<1, -1, "EUR">>}
EligibleTransactions ==
    {<<1, 1, "CHF", TRUE, FALSE>>, <<1, 1, "CHF", FALSE, FALSE>>,
     <<1, -1, "CHF", TRUE, FALSE>>, <<2, 1, "CHF", TRUE, FALSE>>,
     <<1, 1, "EUR", TRUE, FALSE>>, <<1, 1, "CHF", TRUE, TRUE>>}

EligibleNext ==
    \/ \E in \in EligibleCharges : AddCharge(in[1], in[2], in[3])
    \/ \E in \in EligibleTransactions :
           \E i \in (IF in[5] THEN DOMAIN invoices ELSE {NoInvoice}) :
               RecordTransaction(in[1], in[2], in[3], i, in[4])
    \/ \E c \in DOMAIN charges : CancelCharge(c)
    \/ CreateInvoices(1, 1)
    \/ \E i \in DOMAIN invoices : AssignFundsToInvoice(i)
    \/ Return

EligibleSpec == Init /\ [][EligibleNext]_vars

\* --------------------------------------------- assign_funds_to_invoice, stepwise
\* The function runs in autocommit mode: every query and every save() is a
\* statement of its own, and the statements of concurrent calls interleave.
\* Only the carried-forward pair is written inside transaction.atomic().
Started(invoice_id) ==
    [pc |-> "get_invoice", invoice_id |-> invoice_id, invoice |-> Idle,
     invoice_charges |-> <<>>, invoice_due_amount |-> 0, invoice_due_currency |-> "",
     funds |-> <<>>, saved |-> 0, result |-> FALSE]

\* The ledgers the concurrent calls start from: two invoiced charges of one
\* account, then up to MaxFunds credits and payments waiting to be matched.
RECURSIVE WithFunds(_, _, _)
WithFunds(db, ins, k) ==
    IF k > Len(ins) THEN db
    ELSE WithFunds(IF ins[k][1] = "Charge"
                   THEN add_charge(db, 1, ins[k][2], "CHF", 0, ACHARGE)
                   ELSE record_transaction(db, 1, ins[k][2], "CHF", NoInvoice, TRUE),
                   ins, k + 1)

ConcFunds == {<<"Charge", -1>>, <<"Transaction", 1>>, <<"Transaction", 2>>}

ConcLedger(a1, a2, ins) ==
    LET empty == [charges |-> <<>>, transactions |-> <<>>, invoices |-> <<>>]
        db1 == create_invoices(add_charge(empty, 1, a1, "CHF", 0, ACHARGE),
                               1, 1, <<"CHF">>).db
        db2 == create_invoices(add_charge(db1, 1, a2, "CHF", 0, ACHARGE),
                               1, 2, <<"CHF">>).db
    IN WithFunds(db2, ins, 1)

ConcInit ==
    \E a1, a2 \in {1, 2}, n \in 0..MaxFunds :
        \E ins \in [1..n -> ConcFunds], target \in [Procs -> {1, 2}] :
            /\ charges = ConcLedger(a1, a2, ins).charges
            /\ transactions = ConcLedger(a1, a2, ins).transactions
            /\ invoices = ConcLedger(a1, a2, ins).invoices
            /\ last = NoCall
            /\ procs = [p \in Procs |-> Started(target[p])]
    /\ LedgerOnly

\* line 158: invoice = Invoice.objects.get(pk=invoice_id); lines 164-166.
GetInvoice(p) ==
    LET me == procs[p]
        invoice == invoices[me.invoice_id] IN
    /\ me.pc = "get_invoice"
    /\ procs' = [procs EXCEPT ![p] =
                    IF invoice.status /= PENDING
                    THEN [me EXCEPT !.invoice = invoice, !.pc = "done", !.result = FALSE]
                    ELSE [me EXCEPT !.invoice = invoice, !.pc = "invoice_charges"]]
    /\ UNCHANGED <<charges, transactions, invoices, last>>
    /\ UNCHANGED other_vars

\* line 171, Invoice.due: total_amount(invoice_charges), the first of its two queries.
ReadInvoiceCharges(p) ==
    LET me == procs[p] IN
    /\ me.pc = "invoice_charges"
    /\ procs' = [procs EXCEPT ![p] =
                    [me EXCEPT !.pc = "due",
                               !.invoice_charges =
                                   total_amount(charges,
                                       {c \in ChargeObjects(DB) :
                                           charges[c].invoice = me.invoice_id})]]
    /\ UNCHANGED <<charges, transactions, invoices, last>>
    /\ UNCHANGED other_vars

\* line 171, Invoice.due: total_amount(invoice_transactions), the second query;
\* lines 172-181.
ReadDue(p) ==
    LET me == procs[p]
        due == TotalSub(me.invoice_charges,
                        total_amount(transactions,
                            {t \in Successful(DB) :
                                transactions[t].invoice = me.invoice_id}))
        cur == CHOOSE c \in DOMAIN due : TRUE IN
    /\ me.pc = "due"
    /\ procs' = [procs EXCEPT ![p] =
                    IF Cardinality(DOMAIN due) /= 1
                    THEN [me EXCEPT !.pc = "done", !.result = FALSE]
                    ELSE [me EXCEPT !.invoice_due_amount = due[cur],
                                    !.invoice_due_currency = cur,
                                    !.pc = IF due[cur] > 0 THEN "list_credits"
                                           ELSE "mark_paid"]]
    /\ UNCHANGED <<charges, transactions, invoices, last>>
    /\ UNCHANGED other_vars

\* The rows of a query result, as the call holds them in memory.
Fetched(tbl, funds) ==
    [k \in DOMAIN funds |->
        [kind |-> funds[k].kind, id |-> funds[k].id, row |-> tbl[funds[k].id]]]

\* line 195: list(credits).
ListCredits(p) ==
    LET me == procs[p] IN
    /\ me.pc = "list_credits"
    /\ procs' = [procs EXCEPT ![p] =
                    [me EXCEPT !.pc = "list_payments",
                               !.funds = Fetched(charges,
                                   CollectCredits(DB, me.invoice.account,
                                                  me.invoice_due_currency))]]
    /\ UNCHANGED <<charges, transactions, invoices, last>>
    /\ UNCHANGED other_vars

\* line 195: list(payments), appended to the credits.
ListPayments(p) ==
    LET me == procs[p]
        funds == me.funds \o Fetched(transactions,
                                 CollectPayments(DB, me.invoice.account,
                                                 me.invoice_due_currency)) IN
    /\ me.pc = "list_payments"
    /\ procs' = [procs EXCEPT ![p] =
                    [me EXCEPT !.funds = funds,
                               !.pc = IF funds = <<>> THEN "returning"
                                      ELSE "save_fund"]]
    /\ UNCHANGED <<charges, transactions, invoices, last>>
    /\ UNCHANGED other_vars

\* lines 196-207, one turn of the loop: fund.save() writes the row the call
\* fetched, with its invoice set.
SaveFundStep(p) ==
    LET me == procs[p]
        fund == me.funds[me.saved + 1]
        row == [fund.row EXCEPT !.invoice = me.invoice_id]
        rest == me.invoice_due_amount - Abs(fund.row.amount) IN
    /\ me.pc = "save_fund"
    /\ IF fund.kind = "Charge"
       THEN /\ charges' = [charges EXCEPT ![fund.id] = row]
            /\ UNCHANGED transactions
       ELSE /\ transactions' = [transactions EXCEPT ![fund.id] = row]
            /\ UNCHANGED charges
    /\ procs' = [procs EXCEPT ![p] =
                    [me EXCEPT !.saved = @ + 1,
                               !.invoice_due_amount = rest,
                               !.pc = IF rest <= 0 THEN "mark_paid"
                                      ELSE IF me.saved + 1 < Len(me.funds)
                                           THEN "save_fund"
                                      ELSE "returning"]]
    /\ UNCHANGED <<invoices, last>>
    /\ UNCHANGED other_vars

\* lines 212-215: invoice.status = PAID; invoice.save().
MarkPaidStep(p) ==
    LET me == procs[p]
        invoice == [me.invoice EXCEPT !.status = PAID] IN
    /\ me.pc = "mark_paid"
    /\ invoices' = [invoices EXCEPT ![me.invoice_id] = invoice]
    /\ procs' = [procs EXCEPT ![p] =
                    [me EXCEPT !.invoice = invoice,
                               !.pc = IF me.invoice_due_amount < 0 THEN "carry_forward"
                                      ELSE "returning"]]
    /\ UNCHANGED <<charges, transactions, last>>
    /\ UNCHANGED other_vars

\* lines 220-228: the carried-forward pair, written in one transaction.
CarryForwardStep(p) ==
    LET me == procs[p] IN
    /\ me.pc = "carry_forward"
    /\ Store(CarryForward(DB, me.invoice.account, me.invoice_id,
                           Abs(me.invoice_due_amount), me.invoice_due_currency))
    /\ procs' = [procs EXCEPT ![p] = [me EXCEPT !.pc = "returning"]]
    /\ UNCHANGED last
    /\ UNCHANGED other_vars

\* line 230: return invoice.status == Invoice.PAID.
ReturnStep(p) ==
    LET me == procs[p] IN
    /\ me.pc = "returning"
    /\ procs' = [procs EXCEPT ![p] =
                    [me EXCEPT !.pc = "done", !.result = (me.invoice.status = PAID)]]
    /\ UNCHANGED <<charges, transactions, invoices, last>>
    /\ UNCHANGED other_vars

Step(p) ==
    \/ GetInvoice(p)
    \/ ReadInvoiceCharges(p)
    \/ ReadDue(p)
    \/ ListCredits(p)
    \/ ListPayments(p)
    \/ SaveFundStep(p)
    \/ MarkPaidStep(p)
    \/ CarryForwardStep(p)
    \/ ReturnStep(p)

\* Concurrent calls of assign_funds_to_invoice, statement by statement.
ConcNext == \E p \in Procs : Step(p)

ConcSpec == ConcInit /\ [][ConcNext]_vars

\* The process running the call dies between two statements: what it has
\* committed stays, the rest of the call never runs.
Crash(p) ==
    /\ procs[p].pc \in {"invoice_charges", "due", "list_credits", "list_payments",
                        "save_fund", "mark_paid", "carry_forward", "returning"}
    /\ procs' = [procs EXCEPT ![p] = [@ EXCEPT !.pc = "crashed"]]
    /\ UNCHANGED <<charges, transactions, invoices, last>>
    /\ UNCHANGED other_vars

CrashNext ==
    \/ \E p \in Procs : Step(p)
    \/ \E p \in Procs : Crash(p)

CrashSpec == ConcInit /\ [][CrashNext]_vars

\* ---------------------------------------------------- create_invoices, stepwise
\* Lines 68-81 run inside transaction.atomic(): the statements write to the open
\* transaction, which other connections see only once the block is left.
\* invoice_ready is sent after the block, one notification per invoice.
Creating(account_id, due_date) ==
    [pc |-> "atomic", account_id |-> account_id, due_date |-> due_date,
     start |-> DB, tx |-> DB, monies |-> <<>>, k |-> 1, invoices |-> <<>>,
     committed |-> FALSE, sent |-> <<>>]

\* The ledgers create_invoices is called on: charges and credits added one by one.
RECURSIVE WithCharges(_, _, _)
WithCharges(db, ins, k) ==
    IF k > Len(ins) THEN db
    ELSE WithCharges(add_charge(db, 1, ins[k][1], ins[k][2], 0, ACHARGE), ins, k + 1)

InvoiceTxInit ==
    \E n \in 0..MaxRows : \E ins \in [1..n -> InvoicingCharges] :
        \E p \in Procs, d \in DueDates :
            LET db == WithCharges([charges |-> <<>>, transactions |-> <<>>,
                                   invoices |-> <<>>], ins, 1) IN
            /\ charges = db.charges
            /\ transactions = db.transactions
            /\ invoices = db.invoices
            /\ last = NoCall
            /\ procs = [q \in Procs |->
                           IF q = p
                           THEN [Creating(1, d) EXCEPT !.start = db, !.tx = db]
                           ELSE Idle]
    /\ LedgerOnly

\* What the database holds, for every connection, while a transaction is open.
AutocommitMutant(db, tx) == tx
InTransaction(db, tx) == db

\* line 68: with transaction.atomic().
EnterAtomic(p) ==
    LET me == procs[p] IN
    /\ me.pc = "atomic"
    /\ procs' = [procs EXCEPT ![p] = [me EXCEPT !.pc = "total", !.start = DB, !.tx = DB]]
    /\ UNCHANGED <<charges, transactions, invoices, last>>
    /\ UNCHANGED other_vars

\* lines 69-73: total_amount(due_charges) and total.monies().
ReadTotal(p) ==
    LET me == procs[p]
        total == total_amount(me.tx.charges, due_charges(me.tx, me.account_id)) IN
    /\ me.pc = "total"
    /\ \E order \in Perms(DOMAIN total) :
           procs' = [procs EXCEPT ![p] =
                        [me EXCEPT !.pc = "loop",
                                   !.monies = [k \in DOMAIN order |->
                                                  [currency |-> order[k],
                                                   amount |-> total[order[k]]]]]]
    /\ UNCHANGED <<charges, transactions, invoices, last>>
    /\ UNCHANGED other_vars

\* lines 74-75: Invoice.objects.create, when the amount is due.
CreateInvoiceRow(p) ==
    LET me == procs[p]
        amount_due == me.monies[me.k]
        tx == [me.tx EXCEPT !.invoices =
                  Append(@, NewInvoice(me.tx, me.account_id, me.due_date))] IN
    /\ me.pc = "loop"
    /\ me.k <= Len(me.monies)
    /\ IF amount_due.amount > 0
       THEN /\ procs' = [procs EXCEPT ![p] =
                            [me EXCEPT !.pc = "update", !.tx = tx,
                                       !.invoices = Append(@, Len(tx.invoices))]]
            /\ Store(InTransaction(DB, tx))
       ELSE /\ procs' = [procs EXCEPT ![p] = [me EXCEPT !.k = @ + 1]]
            /\ UNCHANGED <<charges, transactions, invoices>>
    /\ UNCHANGED last
    /\ UNCHANGED other_vars

\* lines 76-81: the update of the charges of the currency.
UpdateCharges(p) ==
    LET me == procs[p]
        id == me.invoices[Len(me.invoices)]
        hit == ChargeInCurrency(me.tx, due_charges(me.tx, me.account_id),
                                me.monies[me.k].currency)
        tx == [me.tx EXCEPT !.charges =
                  [c \in DOMAIN @ |->
                      IF c \in hit THEN [@[c] EXCEPT !.invoice = id] ELSE @[c]]] IN
    /\ me.pc = "update"
    /\ procs' = [procs EXCEPT ![p] = [me EXCEPT !.pc = "loop", !.tx = tx, !.k = @ + 1]]
    /\ Store(InTransaction(DB, tx))
    /\ UNCHANGED last
    /\ UNCHANGED other_vars

\* line 81, the end of the atomic block: the transaction commits.
CommitInvoices(p) ==
    LET me == procs[p] IN
    /\ me.pc = "loop"
    /\ me.k > Len(me.monies)
    /\ Store(me.tx)
    /\ procs' = [procs EXCEPT ![p] =
                    [me EXCEPT !.committed = TRUE,
                               !.pc = IF me.invoices = <<>> THEN "done" ELSE "notify"]]
    /\ UNCHANGED last
    /\ UNCHANGED other_vars

\* lines 83-84: invoice_ready.send, one invoice at a time.
NotifyInvoiceReady(p) ==
    LET me == procs[p]
        sent == Append(me.sent, me.invoices[Len(me.sent) + 1]) IN
    /\ me.pc = "notify"
    /\ procs' = [procs EXCEPT ![p] =
                    [me EXCEPT !.sent = sent,
                               !.pc = IF Len(sent) = Len(me.invoices) THEN "done"
                                      ELSE "notify"]]
    /\ UNCHANGED <<charges, transactions, invoices, last>>
    /\ UNCHANGED other_vars

\* The call fails or its process dies: an open transaction is rolled back, what
\* was committed or sent stays.
FailCreate(p) ==
    LET me == procs[p] IN
    /\ me.pc \in {"total", "loop", "update", "notify"}
    /\ procs' = [procs EXCEPT ![p] = [me EXCEPT !.pc = "crashed"]]
    /\ IF me.committed THEN UNCHANGED <<charges, transactions, invoices>>
       ELSE Store(me.start)
    /\ UNCHANGED last
    /\ UNCHANGED other_vars

InvoiceTxNext ==
    \E p \in Procs :
        \/ EnterAtomic(p)
        \/ ReadTotal(p)
        \/ CreateInvoiceRow(p)
        \/ UpdateCharges(p)
        \/ CommitInvoices(p)
        \/ NotifyInvoiceReady(p)
        \/ FailCreate(p)

InvoiceTxSpec == InvoiceTxInit /\ [][InvoiceTxNext]_vars

\* -------------------------------------------- pay_with_account_credit_cards
\* An account holds at most MaxCards credit cards.
MaxCards == 2

\* Account.status and CreditCard.status.
OPEN == "OPEN"
CLOSED == "CLOSED"
ACTIVE == "ACTIVE"
INACTIVE == "INACTIVE"

\* The return value of a call that was not paid.
None == 0

\* The day of the call, and the credit cards an account may hold:
\* (status, expiry_date).
Today == 1
PayCardKinds == {<<ACTIVE, 1>>, <<INACTIVE, 1>>, <<ACTIVE, 0>>}

\* What one call of psp.charge_credit_card may do: return (True, payment),
\* return (False, payment), or raise.
PspOutcomes == {"success", "failure", "throws"}

\* The charges of the invoice to pay: (amount, currency).
PayCharges == {<<1, "CHF">>, <<2, "CHF">>, <<-1, "CHF">>, <<1, "EUR">>}

\* CreditCardQuerySet.valid: the cards that have not expired as of the day.
ExpiredTooMutant(cards, as_of) == DOMAIN cards
CreditCardValid(cards, as_of) == {k \in DOMAIN cards : cards[k][2] >= as_of}

\* order_by('status') sorts the text of the status, 'ACTIVE' before 'INACTIVE';
\* cards of equal status come in any order.
StatusRank(status) == IF status = ACTIVE THEN 0 ELSE 1

AnyOrderMutant(cards, S) == Perms(S)
OrderByStatus(cards, S) ==
    {order \in Perms(S) :
        \A i, j \in DOMAIN order :
            i < j => StatusRank(cards[order[i]][1]) <= StatusRank(cards[order[j]][1])}

\* lines 32-35: the account has to be open.
NeverClosedMutant(account_status) == FALSE
AccountIsClosed(account_status) == account_status = CLOSED

\* Invoice.in_payable_state.
AlwaysPayableMutant(invoice) == TRUE
in_payable_state(invoice) == invoice.status = PENDING

\* Invoice.pay, a transition from PENDING only, and save().
invoice_pay(db, invoice_id) == [db EXCEPT !.invoices[invoice_id].status = PAID]

\* lines 69-76: Transaction.objects.create for the attempt the PSP answered.
OnlySuccessRecordedMutant(db, invoice_id, amount, success) ==
    IF success
    THEN record_transaction(db, db.invoices[invoice_id].account, amount.amount,
                            amount.currency, invoice_id, success)
    ELSE db
RecordAttempt(db, invoice_id, amount, success) ==
    record_transaction(db, db.invoices[invoice_id].account, amount.amount,
                       amount.currency, invoice_id, success)

\* lines 84-85: except Exception, which logs the error and goes on.
NoHandlerMutant(outcome) == FALSE
ExceptException(outcome) == outcome = "throws"

\* lines 63-86: one attempt per card, in order, until one succeeds.  An attempt
\* that raises leaves the try block before Transaction.objects.create.
RECURSIVE ChargeCards(_, _, _, _, _, _, _)
ChargeCards(db, invoice_id, amount, order, k, psp, attempts) ==
    IF k > Len(order)
    THEN [db |-> db, raised |-> "", result |-> None, attempts |-> attempts]
    ELSE LET credit_card == order[k]
             outcome == psp[credit_card]
             success == outcome = "success"
             db1 == RecordAttempt(db, invoice_id, amount, success)
             tried(payment) ==
                 Append(attempts, [credit_card |-> credit_card, outcome |-> outcome,
                                   amount |-> amount, payment |-> payment])
         IN IF outcome = "throws"
            THEN IF ExceptException(outcome)
                 THEN ChargeCards(db, invoice_id, amount, order, k + 1, psp,
                                  tried(None))
                 ELSE [db |-> db, raised |-> "Exception", result |-> None,
                       attempts |-> tried(None)]
            ELSE IF success
                 THEN [db |-> invoice_pay(db1, invoice_id), raised |-> "",
                       result |-> Len(db1.transactions),
                       attempts |-> tried(Len(db1.transactions))]
                 ELSE ChargeCards(db1, invoice_id, amount, order, k + 1, psp,
                                  tried(Len(db1.transactions)))

\* pay_with_account_credit_cards, run from start to end with no other call in
\* between.  account_status and cards are what the database holds for the
\* account of the invoice, order the order in which the query of lines 58-59
\* returns the valid cards, psp what the PSP does with each card.  An exception
\* that leaves transaction.atomic() rolls back what the call wrote.
pay_with_account_credit_cards(db, invoice_id, account_status, cards, order, psp) ==
    LET invoice == db.invoices[invoice_id]
        due == InvoiceDue(db, invoice_id)
        cur == CHOOSE c \in DOMAIN due : TRUE
        amount == [amount |-> due[cur], currency |-> cur]
        PreconditionError(message, read) ==
            [db |-> db, raised |-> "PreconditionError", message |-> message,
             result |-> None, attempts |-> <<>>, cards |-> read]
        r == ChargeCards(db, invoice_id, amount, order, 1, psp, <<>>)
    IN IF AccountIsClosed(account_status)
           THEN PreconditionError("Cannot pay invoice with closed account", <<>>)
       ELSE IF ~in_payable_state(invoice)
           THEN PreconditionError("Cannot pay invoice with status", <<>>)
       ELSE IF Cardinality(DOMAIN due) = 0
           THEN PreconditionError("Cannot pay empty invoice", <<>>)
       ELSE IF Cardinality(DOMAIN due) > 1
           THEN PreconditionError("Cannot pay invoice with more than one currency",
                                  <<>>)
       ELSE IF amount.amount <= 0
           THEN PreconditionError("Cannot pay invoice with non-positive amount", <<>>)
       ELSE IF order = <<>>
           THEN PreconditionError("No valid credit card on account", cards)
       ELSE [db |-> IF r.raised = "" THEN r.db ELSE db, raised |-> r.raised,
             message |-> "", result |-> r.result, attempts |-> r.attempts,
             cards |-> cards]

\* The ledgers the invoice to pay is found in: one invoice of any status, with
\* the charges linked to it.
RECURSIVE WithInvoiceCharges(_, _, _)
WithInvoiceCharges(db, ins, k) ==
    IF k > Len(ins) THEN db
    ELSE WithInvoiceCharges(
             [db EXCEPT !.charges =
                 Append(@, NewCharge(db, 1, ins[k][1], ins[k][2], 1, ACHARGE))],
             ins, k + 1)

PayLedger(status, ins) ==
    LET empty == [charges |-> <<>>, transactions |-> <<>>, invoices |-> <<>>]
        db == [empty EXCEPT !.invoices =
                  <<[NewInvoice(empty, 1, 1) EXCEPT !.status = status]>>]
    IN WithInvoiceCharges(db, ins, 1)

PayInit ==
    \E status \in {PENDING, PAID, CANCELLED}, n \in 0..(MaxRows - 1) :
        \E ins \in [1..n -> PayCharges] :
            /\ charges = PayLedger(status, ins).charges
            /\ transactions = PayLedger(status, ins).transactions
            /\ invoices = PayLedger(status, ins).invoices
            /\ last = NoCall
            /\ procs = [p \in Procs |-> Idle]
    /\ LedgerOnly

\* The call reads the credit cards (line 58) only when the preconditions before
\* that line hold, and asks the PSP about valid cards only.
ReadsCards(db, invoice_id, account_status) ==
    pay_with_account_credit_cards(db, invoice_id, account_status, <<>>, <<>>, <<>>)
        .message = "No valid credit card on account"

\* The card tables an account may hold.
CardTables == UNION {[1..n -> PayCardKinds] : n \in 0..MaxCards}

\* A call for an account whose card table is one of tables.
PayWithCards(invoice_id, tables) ==
    /\ last = NoCall
    /\ \E account_status \in {OPEN, CLOSED} :
        \E cards \in (IF ReadsCards(DB, invoice_id, account_status)
                      THEN tables ELSE {<<>>}) :
            \E order \in OrderByStatus(cards, CreditCardValid(cards, Today)),
               psp \in [CreditCardValid(cards, Today) -> PspOutcomes] :
                \E r \in {pay_with_account_credit_cards(DB, invoice_id, account_status,
                                                         cards, order, psp)} :
                /\ Fits(r.db)
                /\ Store(r.db)
                /\ last' = [op |-> "pay_with_account_credit_cards",
                            arg |-> invoice_id, account_status |-> account_status,
                            cards |-> r.cards, raised |-> r.raised,
                            message |-> r.message, result |-> r.result,
                            attempts |-> r.attempts]
                /\ UNCHANGED procs
    /\ UNCHANGED other_vars

PayWithAccountCreditCards(invoice_id) == PayWithCards(invoice_id, CardTables)

PayNext ==
    \/ \E i \in DOMAIN invoices : RecordTransaction(1, 1, "CHF", i, TRUE)
    \/ \E i \in DOMAIN invoices : PayWithAccountCreditCards(i)
    \/ Return

PaySpec == PayInit /\ [][PayNext]_vars

\* Every operation that reads or writes invoices, one call after the other,
\* with invoices cancelled and payments recorded by the host application, for
\* an account with no card or one valid card.
TerminalCharges == {<<1, "CHF">>, <<-1, "CHF">>}

TerminalNext ==
    \/ \E in \in TerminalCharges : AddCharge(1, in[1], in[2])
    \/ \E amount \in {1, 2} : RecordTransaction(1, amount, "CHF", NoInvoice, TRUE)
    \/ \E c \in DOMAIN charges : CancelCharge(c)
    \/ \E d \in DueDates : CreateInvoices(1, d)
    \/ \E i \in DOMAIN invoices : CancelInvoice(i)
    \/ \E i \in DOMAIN invoices : AssignFundsToInvoice(i)
    \/ AssignFundsToAccountPendingInvoices(1)
    \/ \E i \in DOMAIN invoices : PayWithCards(i, {<<>>, <<<<ACTIVE, Today>>>>})
    \/ Return

TerminalSpec == Init /\ [][TerminalNext]_vars

\* Charges of two accounts added, cancelled, invoiced and matched with credits:
\* (account, amount, currency) of a new charge.
CancellingCharges == {<<1, 1, "CHF">>, <<1, -1, "CHF">>, <<2, 1, "CHF">>}

CancellingNext ==
    \/ \E in \in CancellingCharges : AddCharge(in[1], in[2], in[3])
    \/ \E c \in DOMAIN charges : CancelCharge(c)
    \/ \E a \in {1, 2} : CreateInvoices(a, 1)
    \/ \E i \in DOMAIN invoices : AssignFundsToInvoice(i)
    \/ Return

CancellingSpec == Init /\ [][CancellingNext]_vars

\* ---------------------------------- pay_with_account_credit_cards, stepwise
\* The whole function runs inside transaction.atomic(), on a row of the invoice
\* read with select_for_update(): the row lock is taken at line 27 and held
\* until the transaction ends, by commit (return) or rollback (raise).  What a
\* call writes is seen by the other connections once it has committed.
Paying(invoice_id) ==
    [pc |-> "select_for_update", invoice_id |-> invoice_id, turn |-> 0,
     invoice |-> Idle, amount |-> Idle, valid_credit_cards |-> <<>>, k |-> 1,
     attempts |-> <<>>, created |-> <<>>, paid |-> FALSE,
     raised |-> "", result |-> None]

PayConcInit ==
    \E status \in {PENDING, CANCELLED}, n \in 1..MaxFunds :
        \E ins \in [1..n -> PayCharges] :
            /\ charges = PayLedger(status, ins).charges
            /\ transactions = PayLedger(status, ins).transactions
            /\ invoices = PayLedger(status, ins).invoices
            /\ last = NoCall
            /\ procs = [p \in Procs |-> Paying(1)]
    /\ LedgerOnly

\* The process is inside the atomic block, past line 27.
HoldsLock(p, invoice_id) ==
    /\ procs[p].invoice_id = invoice_id
    /\ procs[p].pc \in {"preconditions", "charge", "commit"}

\* select_for_update: the row can be read when no other transaction holds it.
NoLockMutant(p, invoice_id) == TRUE
RowIsFree(p, invoice_id) == \A q \in Procs \ {p} : ~HoldsLock(q, invoice_id)

\* line 27: Invoice.objects.select_for_update().get(pk=invoice_id).
SelectForUpdate(p) ==
    LET me == procs[p] IN
    /\ me.pc = "select_for_update"
    /\ RowIsFree(p, me.invoice_id)
    /\ procs' = [procs EXCEPT ![p] =
                    [me EXCEPT !.pc = "preconditions",
                               !.invoice = invoices[me.invoice_id],
                               !.turn = 1 + Cardinality({q \in Procs :
                                                            /\ "turn" \in DOMAIN procs[q]
                                                            /\ procs[q].turn > 0})]]
    /\ UNCHANGED <<charges, transactions, invoices, last>>
    /\ UNCHANGED other_vars

\* lines 32-61: the preconditions, on the invoice as read at line 27, and the
\* query of the valid cards.  A PreconditionError leaves the atomic block.
CheckPreconditions(p) ==
    LET me == procs[p]
        db == [DB EXCEPT !.invoices[me.invoice_id] = me.invoice]
        due == InvoiceDue(db, me.invoice_id)
    IN
    /\ me.pc = "preconditions"
    /\ \E account_status \in {OPEN, CLOSED}, n \in 0..MaxCards :
        \E cards \in (IF ReadsCards(db, me.invoice_id, account_status)
                      THEN [1..n -> PayCardKinds] ELSE {<<>>}) :
            \E order \in OrderByStatus(cards, CreditCardValid(cards, Today)) :
                LET r == pay_with_account_credit_cards(
                             db, me.invoice_id, account_status, cards, order,
                             [c \in CreditCardValid(cards, Today) |-> "throws"])
                IN procs' = [procs EXCEPT ![p] =
                       IF r.raised = "PreconditionError"
                       THEN [me EXCEPT !.pc = "done", !.raised = r.raised]
                       ELSE [me EXCEPT
                                !.pc = "charge",
                                !.amount = [amount |-> due[CHOOSE c \in DOMAIN due : TRUE],
                                            currency |-> CHOOSE c \in DOMAIN due : TRUE],
                                !.valid_credit_cards =
                                    [k \in DOMAIN order |-> cards[order[k]]]]]
    /\ UNCHANGED <<charges, transactions, invoices, last>>
    /\ UNCHANGED other_vars

\* lines 63-85: one card is charged.  The PSP acts at once, the Transaction is
\* written inside the open database transaction.
ChargeCard(p) ==
    LET me == procs[p]
        row(success) ==
            [NewTransaction(DB, me.invoice.account, me.amount.amount,
                            me.amount.currency, me.invoice_id, success)
                EXCEPT !.created = @ + Len(me.created)]
    IN
    /\ me.pc = "charge"
    /\ \E outcome \in PspOutcomes :
           LET tried == Append(me.attempts,
                               [credit_card |-> me.k, outcome |-> outcome])
               last_card == me.k = Len(me.valid_credit_cards)
           IN procs' = [procs EXCEPT ![p] =
                  IF outcome = "throws"
                  THEN [me EXCEPT !.attempts = tried, !.k = @ + 1,
                                  !.pc = IF last_card THEN "commit" ELSE "charge"]
                  ELSE IF outcome = "success"
                  THEN [me EXCEPT !.attempts = tried,
                                  !.created = Append(@, row(TRUE)),
                                  !.paid = TRUE, !.pc = "commit"]
                  ELSE [me EXCEPT !.attempts = tried, !.k = @ + 1,
                                  !.created = Append(@, row(FALSE)),
                                  !.pc = IF last_card THEN "commit" ELSE "charge"]]
    /\ UNCHANGED <<charges, transactions, invoices, last>>
    /\ UNCHANGED other_vars

\* lines 79-81 and 86: the function returns and the transaction commits: the
\* Transactions of the call and, after a success, the saved invoice.
CommitPayment(p) ==
    LET me == procs[p] IN
    /\ me.pc = "commit"
    /\ transactions' = transactions \o me.created
    /\ invoices' = IF me.paid
                   THEN [invoices EXCEPT ![me.invoice_id] =
                            [me.invoice EXCEPT !.status = PAID]]
                   ELSE invoices
    /\ procs' = [procs EXCEPT ![p] =
                    [me EXCEPT !.pc = "done",
                               !.result = IF me.paid
                                          THEN Len(transactions) + Len(me.created)
                                          ELSE None]]
    /\ UNCHANGED <<charges, last>>
    /\ UNCHANGED other_vars

PayConcNext ==
    \E p \in Procs :
        \/ SelectForUpdate(p)
        \/ CheckPreconditions(p)
        \/ ChargeCard(p)
        \/ CommitPayment(p)

PayConcSpec == PayConcInit /\ [][PayConcNext]_vars

\* ------------------- assign_funds_to_invoice and pay_with_account_credit_cards
\* One call of each on the same invoice, statement by statement.  The row lock
\* of select_for_update() stops a second select_for_update() and a write of the
\* invoice row; the plain reads of assign_funds_to_invoice and its writes of
\* charges and transactions go through.
MixedLedger(a1, ins) ==
    LET empty == [charges |-> <<>>, transactions |-> <<>>, invoices |-> <<>>]
        db1 == create_invoices(add_charge(empty, 1, a1, "CHF", 0, ACHARGE),
                               1, 1, <<"CHF">>).db
    IN WithFunds(db1, ins, 1)

MixedInit ==
    \E a1 \in {1, 2}, n \in 0..MaxFunds :
        \E ins \in [1..n -> ConcFunds], payer \in Procs :
            /\ charges = MixedLedger(a1, ins).charges
            /\ transactions = MixedLedger(a1, ins).transactions
            /\ invoices = MixedLedger(a1, ins).invoices
            /\ last = NoCall
            /\ procs = [p \in Procs |-> IF p = payer THEN Paying(1) ELSE Started(1)]
    /\ LedgerOnly

\* accounts.py line 215, invoice.save(): the UPDATE of the invoice row waits
\* for the transaction that holds the row lock.
SaveInvoiceStep(p) ==
    /\ RowIsFree(p, procs[p].invoice_id)
    /\ MarkPaidStep(p)

MixedNext ==
    \E p \in Procs :
        \/ GetInvoice(p)
        \/ ReadInvoiceCharges(p)
        \/ ReadDue(p)
        \/ ListCredits(p)
        \/ ListPayments(p)
        \/ SaveFundStep(p)
        \/ SaveInvoiceStep(p)
        \/ CarryForwardStep(p)
        \/ ReturnStep(p)
        \/ SelectForUpdate(p)
        \/ CheckPreconditions(p)
        \/ ChargeCard(p)
        \/ CommitPayment(p)

MixedSpec == MixedInit /\ [][MixedNext]_vars

\* ----------------------------------------------------- cancel_charge, stepwise
\* cancel_charge runs in transaction.atomic() without a lock on the charge: the
\* statements of a concurrent assign_funds_to_invoice, each committed on its
\* own, fall between its read of the charge and its write.
Cancelling(charge_id) ==
    [pc |-> "get_charge", charge_id |-> charge_id, invoice_id |-> NoInvoice,
     charge |-> Idle, raised |-> ""]

\* One call of assign_funds_to_invoice on the invoice and one call of
\* cancel_charge on any charge of the ledger.
CancelConcInit ==
    \E a1 \in {1, 2}, n \in 0..MaxFunds :
        \E ins \in [1..n -> ConcFunds], canceller \in Procs :
            \E c \in DOMAIN MixedLedger(a1, ins).charges :
                /\ charges = MixedLedger(a1, ins).charges
                /\ transactions = MixedLedger(a1, ins).transactions
                /\ invoices = MixedLedger(a1, ins).invoices
                /\ last = NoCall
                /\ procs = [p \in Procs |->
                               IF p = canceller THEN Cancelling(c) ELSE Started(1)]
    /\ LedgerOnly

\* line 30: charge = Charge.all_charges.get(pk=charge_id); lines 32-33.
GetCharge(p) ==
    LET me == procs[p]
        charge == charges[me.charge_id] IN
    /\ me.pc = "get_charge"
    /\ procs' = [procs EXCEPT ![p] =
                    IF charge.deleted
                    THEN [me EXCEPT !.charge = charge, !.pc = "done",
                                    !.raised = "ChargeAlreadyCancelledError"]
                    ELSE [me EXCEPT !.charge = charge, !.pc = "reversed"]]
    /\ UNCHANGED <<charges, transactions, invoices, last>>
    /\ UNCHANGED other_vars

\* lines 35-36: Charge.all_charges.filter(reverses=charge_id).exists().
CheckReversed(p) ==
    LET me == procs[p] IN
    /\ me.pc = "reversed"
    /\ procs' = [procs EXCEPT ![p] =
                    IF \E c \in DOMAIN charges : charges[c].reverses = me.charge_id
                    THEN [me EXCEPT !.pc = "done",
                                    !.raised = "ChargeAlreadyCancelledError"]
                    ELSE [me EXCEPT !.pc = "cancel"]]
    /\ UNCHANGED <<charges, transactions, invoices, last>>
    /\ UNCHANGED other_vars

\* lines 38-46: charge.save() writes the row as read at line 30 with deleted
\* set, or add_charge creates the reversal; the transaction commits.
CancelWrite(p) ==
    LET me == procs[p] IN
    /\ me.pc = "cancel"
    /\ IF me.charge.invoice = NoInvoice
       THEN charges' = [charges EXCEPT ![me.charge_id] =
                           [me.charge EXCEPT !.deleted = TRUE]]
       ELSE charges' = add_charge(DB, me.charge.account, -me.charge.amount,
                                  me.charge.currency, me.charge_id,
                                  REVERSAL_PRODUCT_CODE).charges
    /\ procs' = [procs EXCEPT ![p] = [me EXCEPT !.pc = "done"]]
    /\ UNCHANGED <<transactions, invoices, last>>
    /\ UNCHANGED other_vars

CancelConcNext ==
    \E p \in Procs :
        \/ Step(p)
        \/ GetCharge(p)
        \/ CheckReversed(p)
        \/ CancelWrite(p)

CancelConcSpec == CancelConcInit /\ [][CancelConcNext]_vars

\* ------------------------------------------------- accounts and delinquency
\* billing/actions/accounts.py, lines 233-282, over the account, card and
\* event-log tables.
AccountIds == {1, 2}

NEW_DELINQUENT == "NEW_DELINQUENT"
NEW_COMPLIANT == "NEW_COMPLIANT"

HAS_PENDING == "Account has pending invoices"
NO_VALID_CARD == "Account has not any valid credit card registered"

\* Account(): status OPEN and delinquent False by default.
NewAccount == [status |-> OPEN, delinquent |-> FALSE, currency |-> "CHF"]

\* account.invoices.filter(status=Invoice.PENDING)
AnyInvoicesMutant(db, account_id) ==
    {i \in DOMAIN db.invoices : db.invoices[i].account = account_id}
AccountPendingInvoices(db, account_id) ==
    {i \in DOMAIN db.invoices :
        db.invoices[i].account = account_id /\ db.invoices[i].status = PENDING}

\* lines 249-260: the two reasons are appended independently of each other.
PendingAndNoCardMutant(db, cards, account_id) ==
    IF AccountPendingInvoices(db, account_id) /= {}
       /\ CreditCardValid(cards[account_id], Today) = {}
    THEN <<HAS_PENDING, NO_VALID_CARD>> ELSE <<>>
get_reasons_account_is_violating_delinquent_criteria(db, cards, account_id) ==
    LET reasons1 == IF Cardinality(AccountPendingInvoices(db, account_id)) > 0
                    THEN <<HAS_PENDING>> ELSE <<>>
    IN  IF CreditCardValid(cards[account_id], Today) = {}
        THEN Append(reasons1, NO_VALID_CARD) ELSE reasons1

\* lines 233-246. Account.objects.filter(id__in=account_ids) has no ordering:
\* the two lists are modelled by the sets of their elements.
FlagIgnoredMutant(db, accts, cards, account_ids) ==
    LET found == account_ids \cap DOMAIN accts
        reasons(a) == get_reasons_account_is_violating_delinquent_criteria(db, cards, a) IN
    [new_delinquent_account_ids |-> {a \in found : reasons(a) /= <<>>},
     new_compliant_account_ids |-> {a \in found : reasons(a) = <<>>}]
get_accounts_which_delinquent_status_has_to_change(db, accts, cards, account_ids) ==
    LET found == account_ids \cap DOMAIN accts
        reasons(a) == get_reasons_account_is_violating_delinquent_criteria(db, cards, a) IN
    [new_delinquent_account_ids |->
         {a \in found : reasons(a) /= <<>> /\ ~accts[a].delinquent},
     new_compliant_account_ids |->
         {a \in found : reasons(a) = <<>> /\ accts[a].delinquent}]

\* lines 263-273
AlwaysLogMutant(accts, logs, account_id, reason) ==
    [accounts |-> [accts EXCEPT ![account_id].delinquent = TRUE],
     event_logs |-> Append(logs, [account |-> account_id,
                                  type |-> NEW_DELINQUENT, text |-> reason])]
mark_account_as_delinquent(accts, logs, account_id, reason) ==
    IF ~accts[account_id].delinquent
    THEN [accounts |-> [accts EXCEPT ![account_id].delinquent = TRUE],
          event_logs |-> Append(logs, [account |-> account_id,
                                       type |-> NEW_DELINQUENT, text |-> reason])]
    ELSE [accounts |-> accts, event_logs |-> logs]

\* lines 276-286
mark_account_as_compliant(accts, logs, account_id, reason) ==
    IF accts[account_id].delinquent
    THEN [accounts |-> [accts EXCEPT ![account_id].delinquent = FALSE],
          event_logs |-> Append(logs, [account |-> account_id,
                                       type |-> NEW_COMPLIANT, text |-> reason])]
    ELSE [accounts |-> accts, event_logs |-> logs]

\* billing/actions/credit_cards.py, lines 9-17: the transition is allowed from
\* ACTIVE only; django_fsm raises TransitionNotAllowed otherwise.
deactivate(cards, account_id, k) ==
    IF cards[account_id][k][1] = ACTIVE
    THEN [credit_cards |-> [cards EXCEPT ![account_id][k] = <<INACTIVE, @[2]>>],
          raised |-> ""]
    ELSE [credit_cards |-> cards, raised |-> "TransitionNotAllowed"]

\* Two open accounts without cards, an empty ledger and an empty log.
AccountsInit ==
    /\ charges = <<>>
    /\ transactions = <<>>
    /\ invoices = <<>>
    /\ last = NoCall
    /\ procs = [p \in Procs |-> Idle]
    /\ accounts = [a \in AccountIds |-> NewAccount]
    /\ credit_cards = [a \in AccountIds |-> <<>>]
    /\ event_logs = <<>>
    /\ psp_registry = <<>>
    /\ psp_calls = <<>>
    /\ product_properties = <<>>

\* The number of cards on file and of log entries the model follows.
CardsOnFile == Len(credit_cards[1]) + Len(credit_cards[2])
MaxEvents == 2

\* CreditCard.objects.create(account=..., expiry_year=..., expiry_month=...):
\* status ACTIVE by default, expiry_date computed by save().
CreateCreditCard(account_id, expiry_date) ==
    /\ last = NoCall
    /\ CardsOnFile < MaxCards
    /\ credit_cards' = [credit_cards EXCEPT ![account_id] =
                           Append(@, <<ACTIVE, expiry_date>>)]
    /\ last' = NoCall
    /\ UNCHANGED <<charges, transactions, invoices, procs, accounts, event_logs>>
    /\ UNCHANGED psp_vars
    /\ UNCHANGED product_properties

Deactivate(account_id, k) ==
    LET r == deactivate(credit_cards, account_id, k) IN
    /\ last = NoCall
    /\ credit_cards' = r.credit_cards
    /\ last' = [op |-> "deactivate", arg |-> <<account_id, k>>, raised |-> r.raised]
    /\ UNCHANGED <<charges, transactions, invoices, procs, accounts, event_logs>>
    /\ UNCHANGED psp_vars
    /\ UNCHANGED product_properties

GetReasonsAccountIsViolatingDelinquentCriteria(account_id) ==
    /\ last = NoCall
    /\ last' = [op |-> "get_reasons_account_is_violating_delinquent_criteria",
                arg |-> account_id,
                result |-> get_reasons_account_is_violating_delinquent_criteria(
                               DB, credit_cards, account_id)]
    /\ UNCHANGED <<charges, transactions, invoices, procs, accounts, credit_cards,
                   event_logs>>
    /\ UNCHANGED psp_vars
    /\ UNCHANGED product_properties

GetAccountsWhichDelinquentStatusHasToChange(account_ids) ==
    /\ last = NoCall
    /\ last' = [op |-> "get_accounts_which_delinquent_status_has_to_change",
                arg |-> account_ids,
                result |-> get_accounts_which_delinquent_status_has_to_change(
                               DB, accounts, credit_cards, account_ids)]
    /\ UNCHANGED <<charges, transactions, invoices, procs, accounts, credit_cards,
                   event_logs>>
    /\ UNCHANGED psp_vars
    /\ UNCHANGED product_properties

MarkAccountAsDelinquent(account_id, reason) ==
    LET r == mark_account_as_delinquent(accounts, event_logs, account_id, reason) IN
    /\ last = NoCall
    /\ Len(r.event_logs) <= MaxEvents
    /\ accounts' = r.accounts
    /\ event_logs' = r.event_logs
    /\ last' = [op |-> "mark_account_as_delinquent", arg |-> account_id]
    /\ UNCHANGED <<charges, transactions, invoices, procs, credit_cards>>
    /\ UNCHANGED psp_vars
    /\ UNCHANGED product_properties

MarkAccountAsCompliant(account_id, reason) ==
    LET r == mark_account_as_compliant(accounts, event_logs, account_id, reason) IN
    /\ last = NoCall
    /\ Len(r.event_logs) <= MaxEvents
    /\ accounts' = r.accounts
    /\ event_logs' = r.event_logs
    /\ last' = [op |-> "mark_account_as_compliant", arg |-> account_id]
    /\ UNCHANGED <<charges, transactions, invoices, procs, credit_cards>>
    /\ UNCHANGED psp_vars
    /\ UNCHANGED product_properties

\* Invoices of account 1 are created, one at a time, paid from a payment or left
\* pending, while cards are registered and accounts are evaluated and marked.
DelinquencyNext ==
    \/ due_charges(DB, 1) = {} /\ AddCharge(1, 1, "CHF")
    \/ AccountPendingInvoices(DB, 1) /= {} /\ RecordTransaction(1, 1, "CHF", NoInvoice, TRUE)
    \/ due_charges(DB, 1) /= {} /\ CreateInvoices(1, 1)
    \/ \E i \in DOMAIN invoices : invoices[i].status = PENDING /\ AssignFundsToInvoice(i)
    \/ \E a \in AccountIds, expiry_date \in {0, 1} :
           CreditCardValid(credit_cards[a], Today) = {} /\ CreateCreditCard(a, expiry_date)
    \/ \E a \in AccountIds : \E k \in DOMAIN credit_cards[a] : Deactivate(a, k)
    \/ \E a \in AccountIds : GetReasonsAccountIsViolatingDelinquentCriteria(a)
    \/ \E ids \in {{1}, AccountIds} : GetAccountsWhichDelinquentStatusHasToChange(ids)
    \/ \E a \in AccountIds : MarkAccountAsDelinquent(a, "manual")
    \/ \E a \in AccountIds : MarkAccountAsCompliant(a, "manual")
    \/ Return

DelinquencySpec == AccountsInit /\ [][DelinquencyNext]_vars

\* ------------------------------------------------------ threshold criterion
\* billing/management/commands/update_delinquents.py, lines 130-160. days is
\* (datetime.now() - pending_invoices.last().created).days, read only when the
\* account has pending invoices. Line 153 tests membership in
\* currency_amount_threshold_map.keys, a bound method: Python raises TypeError
\* whenever the evaluation gets that far.
account_hast_to_be_marked_as_delinquent(db, account_id, unpaid_invoices_threshold, days_since_last_unpaid_threshold, days) ==
    LET account_balance == AccountBalance(db, account_id)
        pending_invoices == AccountPendingInvoices(db, account_id) IN
    IF ~TotalBool(account_balance) THEN "False"
    ELSE IF Cardinality(pending_invoices) > unpaid_invoices_threshold THEN "True"
    ELSE IF pending_invoices /= {} /\ days > days_since_last_unpaid_threshold THEN "True"
    ELSE "TypeError"

\* The thresholds of a run and the age in days of a pending invoice.
Thresholds == {0, 1}
Ages == {0, 1, 2}

AccountHastToBeMarkedAsDelinquent(account_id) ==
    /\ last = NoCall
    /\ \E unpaid \in Thresholds, since \in Thresholds, amount \in Thresholds :
        \E days \in (IF AccountPendingInvoices(DB, account_id) = {} THEN {0} ELSE Ages) :
            last' = [op |-> "account_hast_to_be_marked_as_delinquent",
                     arg |-> account_id,
                     unpaid_invoices_threshold |-> unpaid,
                     days_since_last_unpaid_threshold |-> since,
                     currency_amount_threshold |-> amount,
                     days |-> days,
                     result |-> account_hast_to_be_marked_as_delinquent(
                                    DB, account_id, unpaid, since, days)]
    /\ UNCHANGED <<charges, transactions, invoices, procs, accounts, credit_cards,
                   event_logs>>
    /\ UNCHANGED psp_vars
    /\ UNCHANGED product_properties

ThresholdNext ==
    \/ AddCharge(1, 1, "CHF")
    \/ RecordTransaction(1, 1, "CHF", NoInvoice, TRUE)
    \/ CreateInvoices(1, 1)
    \/ \E i \in DOMAIN invoices : AssignFundsToInvoice(i)
    \/ AccountHastToBeMarkedAsDelinquent(1)
    \/ Return

ThresholdSpec == AccountsInit /\ [][ThresholdNext]_vars

\* ---------------------------------------------------------------- billing/psp.py
\* A psp uri is a text, here a sequence of characters; the scheme is what
\* precedes its first colon.
COLON == ":"

HasColon(psp_uri) == \E k \in DOMAIN psp_uri : psp_uri[k] = COLON

FirstColon(psp_uri) ==
    CHOOSE k \in DOMAIN psp_uri :
        psp_uri[k] = COLON /\ \A j \in 1..(k - 1) : psp_uri[j] /= COLON

\* lines 105-107: psp_uri.split(':', 1), two parts or a ValueError.
parse_uri(psp_uri) ==
    [scheme |-> SubSeq(psp_uri, 1, FirstColon(psp_uri) - 1),
     path |-> SubSeq(psp_uri, FirstColon(psp_uri) + 1, Len(psp_uri))]

\* lines 110-111
unparse_uri(scheme, path) == scheme \o <<COLON>> \o path

\* lines 84-85
register(registry, scheme, psp) ==
    [s \in DOMAIN registry \cup {scheme} |-> IF s = scheme THEN psp ELSE registry[s]]

\* lines 88-93
unregister(registry, scheme) ==
    IF scheme \notin DOMAIN registry
    THEN [registry |-> registry, raised |-> "Exception"]
    ELSE [registry |-> [s \in DOMAIN registry \ {scheme} |-> registry[s]], raised |-> ""]

\* What the implementation of a PSP method answers: success or not, and the
\* path of the object it created.
PspAnswers == {<<TRUE, <<"p">>>>, <<FALSE, <<"p">>>>}

\* lines 10-31: charge_credit_card and refund_payment differ in the method of
\* the PSP they call. The uri is parsed, the PSP of its scheme looked up, and
\* the method called with the path and the amount as received.
UncheckedDispatchMutant(registry, calls, method, psp_uri, amount, answer) ==
    IF ~HasColon(psp_uri)
    THEN [calls |-> calls, raised |-> "ValueError", result |-> <<>>]
    ELSE [calls |-> Append(calls, [psp |-> IF parse_uri(psp_uri).scheme \in DOMAIN registry
                                           THEN registry[parse_uri(psp_uri).scheme]
                                           ELSE "psp1",
                                   method |-> method,
                                   path |-> parse_uri(psp_uri).path, amount |-> amount]),
          raised |-> "",
          result |-> <<answer[1], unparse_uri(parse_uri(psp_uri).scheme, answer[2])>>]
psp_call(registry, calls, method, psp_uri, amount, answer) ==
    IF ~HasColon(psp_uri)
    THEN [calls |-> calls, raised |-> "ValueError", result |-> <<>>]
    ELSE LET scheme == parse_uri(psp_uri).scheme
             path == parse_uri(psp_uri).path IN
         IF scheme \notin DOMAIN registry
         THEN [calls |-> calls, raised |-> "Exception", result |-> <<>>]
         ELSE [calls |-> Append(calls, [psp |-> registry[scheme], method |-> method,
                                        path |-> path, amount |-> amount]),
               raised |-> "",
               result |-> <<answer[1], unparse_uri(scheme, answer[2])>>]

\* The schemes, implementations, uris and amounts of the calls.
Schemes == {<<"a">>, <<"b">>}
Psps == {"psp1", "psp2"}
PspUris == {<<"a", COLON, "c">>, <<"b", COLON, "c", COLON, "d">>, <<"a", "c">>}
PspAmounts == {-1, 0, 1}
MaxCalls == 2

PspInit ==
    /\ charges = <<>>
    /\ transactions = <<>>
    /\ invoices = <<>>
    /\ last = NoCall
    /\ procs = [p \in Procs |-> Idle]
    /\ accounts = <<>>
    /\ credit_cards = <<>>
    /\ event_logs = <<>>
    /\ psp_registry = <<>>
    /\ psp_calls = <<>>
    /\ product_properties = <<>>

Register(scheme, psp) ==
    /\ last = NoCall
    /\ psp_registry' = register(psp_registry, scheme, psp)
    /\ last' = [op |-> "register", arg |-> scheme, psp |-> psp]
    /\ UNCHANGED <<charges, transactions, invoices, procs, psp_calls>>
    /\ UNCHANGED account_vars
    /\ UNCHANGED product_properties

Unregister(scheme) ==
    LET r == unregister(psp_registry, scheme) IN
    /\ last = NoCall
    /\ psp_registry' = r.registry
    /\ last' = [op |-> "unregister", arg |-> scheme, raised |-> r.raised]
    /\ UNCHANGED <<charges, transactions, invoices, procs, psp_calls>>
    /\ UNCHANGED account_vars
    /\ UNCHANGED product_properties

PspCall(method, psp_uri, amount) ==
    /\ last = NoCall
    /\ Len(psp_calls) < MaxCalls
    /\ \E answer \in PspAnswers :
        \E r \in {psp_call(psp_registry, psp_calls, method, psp_uri, amount, answer)} :
            /\ psp_calls' = r.calls
            /\ last' = [op |-> method, arg |-> psp_uri, amount |-> amount,
                        raised |-> r.raised, result |-> r.result]
    /\ UNCHANGED <<charges, transactions, invoices, procs, psp_registry>>
    /\ UNCHANGED account_vars
    /\ UNCHANGED product_properties

ChargeCreditCard(credit_card_psp_uri, amount) ==
    PspCall("charge_credit_card", credit_card_psp_uri, amount)

RefundPayment(payment_psp_uri, amount) ==
    PspCall("refund_payment", payment_psp_uri, amount)

PspNext ==
    \/ \E scheme \in Schemes, psp \in Psps : Register(scheme, psp)
    \/ \E scheme \in Schemes : Unregister(scheme)
    \/ \E psp_uri \in PspUris, amount \in PspAmounts : ChargeCreditCard(psp_uri, amount)
    \/ \E psp_uri \in PspUris, amount \in PspAmounts : RefundPayment(psp_uri, amount)
    \/ Return

PspSpec == PspInit /\ [][PspNext]_vars

\* ------------------------------------------- add_charge and its validation
\* billing/actions/accounts.py, lines 88-122, with the validators of
\* billing/models.py. Product codes and property names are texts, here
\* sequences of characters.
UpperCase == {"A", "B", "C"}
LowerCase == {"a", "b"}
Digits == {"1"}

\* models.py, lines 237-238: ^[A-Z0-9]{4,10}$
product_code_validator(code) ==
    /\ Len(code) >= 4 /\ Len(code) <= 10
    /\ \A k \in DOMAIN code : code[k] \in UpperCase \cup Digits

\* models.py, lines 306-308: ^[a-z]\w*$ with re.ASCII | re.IGNORECASE
AnyNameMutant(name) == TRUE
product_property_name_validator(name) ==
    /\ Len(name) >= 1
    /\ name[1] \in LowerCase \cup UpperCase
    /\ \A k \in DOMAIN name : name[k] \in LowerCase \cup UpperCase \cup Digits \cup {"_"}

\* charge.full_clean: the validators of a field run when the field is not
\* empty; then Charge.clean (models.py, lines 293-295) wants a label or a code,
\* and add_charge sets no label.
ChargeFullClean(product_code) ==
    IF product_code /= <<>> /\ ~product_code_validator(product_code)
    THEN "ValidationError"
    ELSE IF product_code = <<>> THEN "ValidationError" ELSE ""

\* o.full_clean of every ProductProperty built from the dict: name is not blank
\* and matches the validator.
PropertiesFullClean(properties) ==
    IF \E name \in DOMAIN properties : ~product_property_name_validator(name)
    THEN "ValidationError" ELSE ""

\* with transaction.atomic() (line 106): what the block wrote is kept when the
\* block ends normally and undone when an exception leaves it.
NoRollbackMutant(before, after, raised) == after
transaction_atomic(before, after, raised) == IF raised = "" THEN after ELSE before

\* One row per property, in some order of the names.
RECURSIVE PropertyRows(_, _, _)
PropertyRows(charge_id, properties, names) ==
    IF names = {} THEN <<>>
    ELSE LET name == CHOOSE n \in names : TRUE IN
         <<[charge |-> charge_id, name |-> name, value |-> properties[name]]>>
             \o PropertyRows(charge_id, properties, names \ {name})

\* lines 106-122. tables is the pair of the charge and property tables.
add_charge_validated(db, tables, account_id, amount, cur, reverses_id, product_code, properties) ==
    LET cleaned == ChargeFullClean(product_code)
        inserted == [tables EXCEPT !.charges =
                        Append(@, [NewCharge(db, account_id, amount, cur, NoInvoice,
                                             product_code)
                                       EXCEPT !.reverses = reverses_id])]
        checked == IF DOMAIN properties = {} THEN "" ELSE PropertiesFullClean(properties)
        created == [inserted EXCEPT !.product_properties =
                       @ \o PropertyRows(Len(inserted.charges), properties,
                                         DOMAIN properties)]
    IN  IF cleaned /= ""
        THEN [tables |-> transaction_atomic(tables, tables, cleaned), raised |-> cleaned]
        ELSE IF checked /= ""
        THEN [tables |-> transaction_atomic(tables, inserted, checked), raised |-> checked]
        ELSE [tables |-> transaction_atomic(tables, created, ""), raised |-> ""]

\* The product codes and the property dicts of the calls.
ProductCodes == {<<>>, <<"A", "B", "C", "1">>, <<"a", "b">>, <<"A", "B">>}
PropertyNames == {<<"a", "_", "1">>, <<"B">>, <<"1", "a">>, <<"_">>}
PropertyDicts == UNION {[names -> {"v"}] : names \in {S \in SUBSET PropertyNames : Cardinality(S) <= 2}}

AddChargeValidated(account_id, amount, cur) ==
    /\ last = NoCall
    /\ \E product_code \in ProductCodes, properties \in PropertyDicts :
        \E r \in {add_charge_validated(DB, [charges |-> charges,
                                             product_properties |-> product_properties],
                                       account_id, amount, cur, 0, product_code, properties)} :
            /\ Len(r.tables.charges) <= MaxRows
            /\ charges' = r.tables.charges
            /\ product_properties' = r.tables.product_properties
            /\ last' = [op |-> "add_charge", arg |-> account_id, product_code |-> product_code,
                        product_properties |-> properties, raised |-> r.raised]
    /\ UNCHANGED <<transactions, invoices, procs>>
    /\ UNCHANGED <<account_vars, psp_vars>>

ValidationNext ==
    \/ \E a \in {1, 2} : AddChargeValidated(a, 1, "CHF")
    \/ Return

ValidationSpec == Init /\ [][ValidationNext]_vars

\* ------------------------------------------- account and card status machines
\* billing/actions/accounts.py, lines 30-55: the transition methods of
\* django_fsm raise TransitionNotAllowed from any state but their source.
CloseAnywayMutant(accts, account_id) ==
    [accounts |-> [accts EXCEPT ![account_id].status = CLOSED], raised |-> ""]
close(accts, account_id) ==
    IF accts[account_id].status = OPEN
    THEN [accounts |-> [accts EXCEPT ![account_id].status = CLOSED], raised |-> ""]
    ELSE [accounts |-> accts, raised |-> "TransitionNotAllowed"]

reopen(accts, account_id) ==
    IF accts[account_id].status = CLOSED
    THEN [accounts |-> [accts EXCEPT ![account_id].status = OPEN], raised |-> ""]
    ELSE [accounts |-> accts, raised |-> "TransitionNotAllowed"]

\* billing/actions/credit_cards.py, lines 20-28
reactivate(cards, account_id, k) ==
    IF cards[account_id][k][1] = INACTIVE
    THEN [credit_cards |-> [cards EXCEPT ![account_id][k] = <<ACTIVE, @[2]>>],
          raised |-> ""]
    ELSE [credit_cards |-> cards, raised |-> "TransitionNotAllowed"]

Close(account_id) ==
    LET r == close(accounts, account_id) IN
    /\ last = NoCall
    /\ accounts' = r.accounts
    /\ last' = [op |-> "close", arg |-> account_id, raised |-> r.raised]
    /\ UNCHANGED <<charges, transactions, invoices, procs, credit_cards, event_logs>>
    /\ UNCHANGED <<psp_vars, product_properties>>

Reopen(account_id) ==
    LET r == reopen(accounts, account_id) IN
    /\ last = NoCall
    /\ accounts' = r.accounts
    /\ last' = [op |-> "reopen", arg |-> account_id, raised |-> r.raised]
    /\ UNCHANGED <<charges, transactions, invoices, procs, credit_cards, event_logs>>
    /\ UNCHANGED <<psp_vars, product_properties>>

Reactivate(account_id, k) ==
    LET r == reactivate(credit_cards, account_id, k) IN
    /\ last = NoCall
    /\ credit_cards' = r.credit_cards
    /\ last' = [op |-> "reactivate", arg |-> <<account_id, k>>, raised |-> r.raised]
    /\ UNCHANGED <<charges, transactions, invoices, procs, accounts, event_logs>>
    /\ UNCHANGED <<psp_vars, product_properties>>

\* Accounts are closed, reopened and marked, cards registered, deactivated and
\* reactivated.
StatusNext ==
    \/ \E a \in AccountIds : Close(a)
    \/ \E a \in AccountIds : Reopen(a)
    \/ \E a \in AccountIds : CreateCreditCard(a, 1)
    \/ \E a \in AccountIds : \E k \in DOMAIN credit_cards[a] : Deactivate(a, k)
    \/ \E a \in AccountIds : \E k \in DOMAIN credit_cards[a] : Reactivate(a, k)
    \/ \E a \in AccountIds : MarkAccountAsDelinquent(a, "manual")
    \/ \E a \in AccountIds : MarkAccountAsCompliant(a, "manual")
    \/ Return

StatusSpec == AccountsInit /\ [][StatusNext]_vars

\* --------------------------------------------- Invoice.due, Account.balance
\* The two methods called on a ledger with charges and credits in two
\* currencies, cancelled charges, and payments that succeeded or failed, linked
\* to an invoice or not.
Due(invoice_id) ==
    /\ last = NoCall
    /\ last' = [op |-> "due", arg |-> invoice_id, result |-> InvoiceDue(DB, invoice_id)]
    /\ UNCHANGED <<charges, transactions, invoices, procs>>
    /\ UNCHANGED other_vars

Balance(account_id) ==
    /\ last = NoCall
    /\ last' = [op |-> "balance", arg |-> account_id,
                result |-> AccountBalance(DB, account_id)]
    /\ UNCHANGED <<charges, transactions, invoices, procs>>
    /\ UNCHANGED other_vars

DueCharges == {<<1, "CHF">>, <<-1, "CHF">>, <<1, "EUR">>}

DueNext ==
    \/ \E in \in DueCharges : AddCharge(1, in[1], in[2])
    \/ \E i \in {NoInvoice} \cup PayableInvoices(1), success \in BOOLEAN :
           RecordTransaction(1, 1, "CHF", i, success)
    \/ \E c \in DOMAIN charges : CancelCharge(c)
    \/ CreateInvoices(1, 1)
    \/ \E i \in DOMAIN invoices : AssignFundsToInvoice(i)
    \/ \E i \in DOMAIN invoices : Due(i)
    \/ Balance(1)
    \/ Return

DueSpec == Init /\ [][DueNext]_vars

\* ------------------------------------------------------------ billing/total.py
\* The class Total as an object: the tuple _money_obs and the dict _by_currency
\* built from it. A Money is the pair (amount, currency).
MaxAmount == 1
Monies == ((-MaxAmount)..MaxAmount) \X Currencies
MoneyLists == UNION {[1..n -> Monies] : n \in 0..2}

\* {m.currency.code: m for m in self._money_obs}: a later Money of a currency
\* replaces an earlier one.
ByCurrency(money_obs) ==
    [cur \in {money_obs[k][2] : k \in DOMAIN money_obs} |->
        money_obs[CHOOSE k \in DOMAIN money_obs :
                      /\ money_obs[k][2] = cur
                      /\ \A j \in DOMAIN money_obs : money_obs[j][2] = cur => j <= k]]

\* lines 42-52: __init__ given a list of Money.
NoDuplicateCheckMutant(money_obs) ==
    [money_obs |-> money_obs, by_currency |-> ByCurrency(money_obs), raised |-> ""]
TotalNew(money_obs) ==
    IF Cardinality(DOMAIN ByCurrency(money_obs)) /= Len(money_obs)
    THEN [money_obs |-> <<>>, by_currency |-> <<>>, raised |-> "ValueError"]
    ELSE [money_obs |-> money_obs, by_currency |-> ByCurrency(money_obs), raised |-> ""]

\* lines 63-72: __getitem__
TotalItem(self, currency) ==
    IF currency \in DOMAIN self.by_currency THEN self.by_currency[currency]
    ELSE <<0, currency>>

\* lines 85-86, 91-92
total_neg(self) ==
    TotalNew([k \in DOMAIN self.money_obs |-> <<-self.money_obs[k][1], self.money_obs[k][2]>>])

total_abs(self) ==
    TotalNew([k \in DOMAIN self.money_obs |->
                 <<Abs(self.money_obs[k][1]), self.money_obs[k][2]>>])

\* The currencies of other that self lacks, in the order of other._money_obs.
RECURSIVE NewCurrencies(_, _, _)
NewCurrencies(self, other, k) ==
    IF k > Len(other.money_obs) THEN <<>>
    ELSE (IF other.money_obs[k][2] \in DOMAIN self.by_currency THEN <<>>
          ELSE <<other.money_obs[k][2]>>) \o NewCurrencies(self, other, k + 1)

\* lines 74-80: __add__ works on a deep copy of self._by_currency, sets the
\* entry of every currency of other to other_money + self[currency], and
\* builds a Total from the values of the dict, in the order of their insertion.
\* The operands come back as the call left them.
OverwriteMutant(self, other) ==
    LET keys == [k \in DOMAIN self.money_obs |-> self.money_obs[k][2]]
                    \o NewCurrencies(self, other, 1) IN
    [self |-> self, other |-> other,
     result |-> TotalNew([k \in DOMAIN keys |->
                            IF keys[k] \in DOMAIN other.by_currency
                            THEN other.by_currency[keys[k]]
                            ELSE self.by_currency[keys[k]]])]
total_add(self, other) ==
    LET keys == [k \in DOMAIN self.money_obs |-> self.money_obs[k][2]]
                    \o NewCurrencies(self, other, 1) IN
    [self |-> self, other |-> other,
     result |-> TotalNew([k \in DOMAIN keys |->
                            IF keys[k] \in DOMAIN other.by_currency
                            THEN <<other.by_currency[keys[k]][1] + TotalItem(self, keys[k])[1],
                                   keys[k]>>
                            ELSE self.by_currency[keys[k]]])]

\* lines 82-83
total_sub(self, other) == total_add(self, total_neg(other))

\* lines 94-95
total_bool(self) == \E k \in DOMAIN self.money_obs : self.money_obs[k][1] /= 0

\* lines 97-104 with a Total as other: other == 0 is itself answered by
\* __eq__, with not other.__bool__(); with the integer 0 as other.
total_eq(self, other) ==
    IF ~total_bool(other) THEN ~total_bool(self)
    ELSE ~total_bool(total_sub(self, other).result)

total_eq_zero(self) == ~total_bool(self)

\* Total(money_obs) is called with a list of Money.
TotalConstruct(money_obs) ==
    /\ last = NoCall
    /\ last' = [op |-> "Total", arg |-> money_obs, result |-> TotalNew(money_obs)]
    /\ UNCHANGED <<charges, transactions, invoices, procs>>
    /\ UNCHANGED other_vars

\* Two Totals are built and combined.
TotalArithmetic(money_obs_a, money_obs_b) ==
    LET a == TotalNew(money_obs_a)
        b == TotalNew(money_obs_b) IN
    /\ last = NoCall
    /\ a.raised = "" /\ b.raised = ""
    /\ last' = [op |-> "arithmetic", a |-> a, b |-> b,
                add |-> total_add(a, b),
                sub |-> total_sub(a, b),
                neg |-> total_neg(a),
                abs |-> total_abs(a),
                add_sub |-> total_sub(total_add(a, b).result, b).result,
                add_sub_eq |-> total_eq(total_sub(total_add(a, b).result, b).result, a),
                self_sub |-> total_sub(a, a).result,
                self_sub_eq_zero |-> total_eq_zero(total_sub(a, a).result),
                empty_eq_zero |-> total_eq_zero(TotalNew(<<>>)),
                padded_eq |-> {total_eq(a, TotalNew(Append(money_obs_a, <<0, cur>>)))
                                   /\ total_eq(TotalNew(Append(money_obs_a, <<0, cur>>)), a) :
                               cur \in Currencies \ DOMAIN a.by_currency}]
    /\ UNCHANGED <<charges, transactions, invoices, procs>>
    /\ UNCHANGED other_vars

TotalNext ==
    \/ \E money_obs \in MoneyLists : TotalConstruct(money_obs)
    \/ \E money_obs_a \in MoneyLists, money_obs_b \in MoneyLists :
           TotalArithmetic(money_obs_a, money_obs_b)
    \/ Return

TotalSpec == Init /\ [][TotalNext]_vars

\* ------------------------------- actions/invoices.py: audit_closed_invoices
\* The audit reads every invoice that is not PENDING and logs the ones whose
\* due() holds a number of Money other than one (wrong-number-of-currencies)
\* or one Money with a non-zero amount (non-zero-due).
audit_closed_invoices(db) ==
    {i \in DOMAIN db.invoices :
        /\ db.invoices[i].status /= PENDING
        /\ \/ Cardinality(DOMAIN InvoiceDue(db, i)) /= 1
           \/ \E cur \in DOMAIN InvoiceDue(db, i) : InvoiceDue(db, i)[cur] /= 0}

\* ------------------------------------------ marking accounts, one call at a time
\* mark_account_as_delinquent and mark_account_as_compliant called in any order
\* on two accounts that start compliant with an empty log, while the accounts
\* are closed and reopened.
MarkReasons == {HAS_PENDING, NO_VALID_CARD}

MarkNext ==
    \/ \E a \in AccountIds, reason \in MarkReasons : MarkAccountAsDelinquent(a, reason)
    \/ \E a \in AccountIds, reason \in MarkReasons : MarkAccountAsCompliant(a, reason)
    \/ \E a \in AccountIds : Close(a)
    \/ \E a \in AccountIds : Reopen(a)
    \/ Return

MarkSpec == AccountsInit /\ [][MarkNext]_vars

\* ------------------------------------- management/commands/update_delinquents.py
\* lines 59-128: handle. Both lists are computed from the accounts whose flag
\* is False (lines 100 and 118); an exception raised by the criterion ends the
\* command before any update. days gives, per account, the age of its last
\* pending invoice.
update_delinquents(db, accts, unpaid_invoices_threshold, days_since_last_unpaid_threshold, days, dry_run) ==
    LET hast(a) == account_hast_to_be_marked_as_delinquent(db, a, unpaid_invoices_threshold, days_since_last_unpaid_threshold, days[a])
        legal_accounts == {a \in DOMAIN accts : ~accts[a].delinquent}
        delinquent_accounts == {a \in DOMAIN accts : ~accts[a].delinquent}
        new_delinquent_accounts_ids == {a \in legal_accounts : hast(a) = "True"}
        new_legal_accounts_ids == {a \in delinquent_accounts : hast(a) = "False"}
    IN  IF \E a \in legal_accounts : hast(a) = "TypeError"
        THEN [accounts |-> accts, raised |-> "TypeError", new_delinquent_accounts_ids |-> {}, new_legal_accounts_ids |-> {}]
        ELSE [accounts |-> IF dry_run THEN accts
                           ELSE [a \in DOMAIN accts |->
                                    IF a \in new_legal_accounts_ids THEN [accts[a] EXCEPT !.delinquent = FALSE]
                                    ELSE IF a \in new_delinquent_accounts_ids THEN [accts[a] EXCEPT !.delinquent = TRUE]
                                    ELSE accts[a]],
              raised |-> "",
              new_delinquent_accounts_ids |-> new_delinquent_accounts_ids,
              new_legal_accounts_ids |-> new_legal_accounts_ids]

\* One run of the command, with its options.
UpdateDelinquents(dry_run) ==
    /\ last = NoCall
    /\ \E unpaid \in Thresholds, since \in Thresholds :
        \E days \in [AccountIds -> Ages] :
            /\ \A a \in AccountIds : AccountPendingInvoices(DB, a) = {} => days[a] = 0
            /\ \E r \in {update_delinquents(DB, accounts, unpaid, since, days, dry_run)} :
                /\ accounts' = r.accounts
                /\ last' = [op |-> "update_delinquents", dry_run |-> dry_run,
                            unpaid_invoices_threshold |-> unpaid,
                            days_since_last_unpaid_threshold |-> since,
                            days |-> days,
                            raised |-> r.raised,
                            new_delinquent_accounts_ids |-> r.new_delinquent_accounts_ids,
                            new_legal_accounts_ids |-> r.new_legal_accounts_ids]
    /\ UNCHANGED <<charges, transactions, invoices, procs, credit_cards, event_logs>>
    /\ UNCHANGED psp_vars
    /\ UNCHANGED product_properties

\* Charges of the two accounts are invoiced and paid between the runs of the
\* command.
CommandNext ==
    \/ \E a \in AccountIds : due_charges(DB, a) = {} /\ AddCharge(a, 1, "CHF")
    \/ \E a \in AccountIds : RecordTransaction(a, 1, "CHF", NoInvoice, TRUE)
    \/ \E a \in AccountIds : CreateInvoices(a, 1)
    \/ \E i \in DOMAIN invoices : AssignFundsToInvoice(i)
    \/ \E dry_run \in BOOLEAN : UpdateDelinquents(dry_run)
    \/ Return

CommandSpec == AccountsInit /\ [][CommandNext]_vars

\* ------------------------------------------- views.py: pay-open-invoices endpoint
\* InvoiceQuerySet.payable (models.py lines 176-179): PENDING and due.
Payable(db, account_id) ==
    {i \in DOMAIN db.invoices :
        /\ db.invoices[i].account = account_id
        /\ db.invoices[i].status = PENDING
        /\ db.invoices[i].due_date <= Today}

PAID_REASON == "Pending invoices have been paid"

\* The payable invoices come in ascending order of their keys.
PayableOrder(account_id, db) == OrderByCreated(db.invoices, Payable(db, account_id))

\* accounts.py lines 295-302: pay_with_account_credit_cards on every payable
\* invoice, each call in a transaction of its own; a PreconditionError skips
\* the invoice, any other exception leaves the function. psp[i] is what the
\* PSP answers for each card when invoice i is charged. Every card charge is
\* kept with the ledger it was made on.
Tried(db, invoice_id, r) ==
    [j \in DOMAIN r.attempts |->
        [invoice_id |-> invoice_id, amount |-> r.attempts[j].amount,
         outcome |-> r.attempts[j].outcome, before |-> db]]

RECURSIVE ChargeLoop(_, _, _, _, _, _, _, _, _)
RECURSIVE ChargeStep(_, _, _, _, _, _, _, _, _, _)
ChargeStep(db, account_status, cards, pending_invoices, k, card_order, psp, payment_transactions, attempts, r) ==
    IF r.raised = "PreconditionError"
    THEN ChargeLoop(db, account_status, cards, pending_invoices, k + 1, card_order, psp, payment_transactions, attempts)
    ELSE IF r.raised /= ""
    THEN [db |-> r.db, raised |-> r.raised, payment_transactions |-> payment_transactions,
          attempts |-> attempts \o Tried(db, pending_invoices[k], r)]
    ELSE ChargeLoop(r.db, account_status, cards, pending_invoices, k + 1, card_order, psp,
                    IF r.result /= None THEN Append(payment_transactions, r.result)
                    ELSE payment_transactions,
                    attempts \o Tried(db, pending_invoices[k], r))

ChargeLoop(db, account_status, cards, pending_invoices, k, card_order, psp, payment_transactions, attempts) ==
    IF k > Len(pending_invoices)
    THEN [db |-> db, raised |-> "", payment_transactions |-> payment_transactions, attempts |-> attempts]
    ELSE ChargeStep(db, account_status, cards, pending_invoices, k, card_order, psp, payment_transactions, attempts,
                    pay_with_account_credit_cards(db, pending_invoices[k], account_status, cards, card_order, psp[pending_invoices[k]]))

\* accounts.py lines 304-311: the account is marked compliant when no reason is
\* left, and the invoices paid and failed are counted.
MarkAnywayMutant(paid, accts, cards, logs, account_id, pending_invoices) ==
    IF paid.raised /= ""
    THEN [db |-> paid.db, accounts |-> accts, event_logs |-> logs, raised |-> paid.raised,
          attempts |-> paid.attempts, num_paid_invoices |-> 0, num_failed_invoices |-> 0]
    ELSE [db |-> paid.db,
          accounts |-> mark_account_as_compliant(accts, logs, account_id, PAID_REASON).accounts,
          event_logs |-> mark_account_as_compliant(accts, logs, account_id, PAID_REASON).event_logs,
          raised |-> "", attempts |-> paid.attempts,
          num_paid_invoices |-> Len(paid.payment_transactions),
          num_failed_invoices |-> Len(pending_invoices) - Len(paid.payment_transactions)]
MarkIfNoReason(paid, accts, cards, logs, account_id, pending_invoices) ==
    IF paid.raised /= ""
    THEN [db |-> paid.db, accounts |-> accts, event_logs |-> logs, raised |-> paid.raised,
          attempts |-> paid.attempts, num_paid_invoices |-> 0, num_failed_invoices |-> 0]
    ELSE [db |-> paid.db,
          accounts |-> IF get_reasons_account_is_violating_delinquent_criteria(paid.db, cards, account_id) = <<>>
                       THEN mark_account_as_compliant(accts, logs, account_id, PAID_REASON).accounts
                       ELSE accts,
          event_logs |-> IF get_reasons_account_is_violating_delinquent_criteria(paid.db, cards, account_id) = <<>>
                         THEN mark_account_as_compliant(accts, logs, account_id, PAID_REASON).event_logs
                         ELSE logs,
          raised |-> "", attempts |-> paid.attempts,
          num_paid_invoices |-> Len(paid.payment_transactions),
          num_failed_invoices |-> Len(pending_invoices) - Len(paid.payment_transactions)]

\* accounts.py lines 289-311
charge_pending_invoices(db, accts, cards, logs, account_id, card_order, psp) ==
    MarkIfNoReason(ChargeLoop(db, accts[account_id].status, cards[account_id],
                              PayableOrder(account_id, db), 1, card_order, psp, <<>>, <<>>),
                   accts, cards, logs, account_id, PayableOrder(account_id, db))

\* views.py lines 158-163: success is the flag of the account read again.
Response(matched, charged, account_id) ==
    [db |-> charged.db, matched |-> matched, accounts |-> charged.accounts,
     event_logs |-> charged.event_logs, raised |-> charged.raised, attempts |-> charged.attempts,
     success |-> ~charged.accounts[account_id].delinquent,
     summary |-> <<charged.num_paid_invoices, charged.num_failed_invoices>>]

\* views.py line 155, on the ledger the matching left.
ChargeMatched(matched, accts, cards, logs, account_id, card_order, psp) ==
    Response(matched, charge_pending_invoices(matched, accts, cards, logs, account_id, card_order, psp), account_id)

\* views.py lines 150-163: the funds are matched, then the cards are charged.
NoMatchingMutant(db, accts, cards, logs, account_id, pending_order, card_order, psp) ==
    ChargeMatched(db, accts, cards, logs, account_id, card_order, psp)
pay_open_invoices_with_registered_credit_cards(db, accts, cards, logs, account_id, pending_order, card_order, psp) ==
    ChargeMatched(assign_funds_to_account_pending_invoices(db, pending_order).db,
                  accts, cards, logs, account_id, card_order, psp)

\* The rows the ledger may hold once the endpoint has recorded its charges.
FlowFits(db) == Len(db.charges) + Len(db.transactions) <= MaxRows + 1

PayOpenInvoicesWithRegisteredCreditCards(account_id) ==
    /\ last = NoCall
    /\ \E pending_order \in PendingByDueDate(DB, account_id) :
        \E card_order \in OrderByStatus(credit_cards[account_id], CreditCardValid(credit_cards[account_id], Today)),
           psp \in [Payable(DB, account_id) -> [CreditCardValid(credit_cards[account_id], Today) -> PspOutcomes]] :
            \E r \in {pay_open_invoices_with_registered_credit_cards(
                          DB, accounts, credit_cards, event_logs, account_id, pending_order,
                          card_order, psp)} :
                /\ FlowFits(r.db)
                /\ Len(r.event_logs) <= MaxEvents
                /\ Store(r.db)
                /\ accounts' = r.accounts
                /\ event_logs' = r.event_logs
                /\ last' = [op |-> "pay_open_invoices_with_registered_credit_cards",
                            arg |-> account_id, before |-> DB, matched |-> r.matched,
                            attempts |-> r.attempts, raised |-> r.raised,
                            success |-> r.success, summary |-> r.summary]
    /\ UNCHANGED <<procs, credit_cards>>
    /\ UNCHANGED psp_vars
    /\ UNCHANGED product_properties

\* An account is invoiced up to twice, in either currency, receives payments,
\* registers a card, is marked delinquent and calls the endpoint.
EndpointNext ==
    \/ \E cur \in Currencies : due_charges(DB, 1) = {} /\ AddCharge(1, 1, cur)
    \/ \E cur \in Currencies :
           CollectPayments(DB, 1, cur) = <<>> /\ RecordTransaction(1, 1, cur, NoInvoice, TRUE)
    \/ \E d \in DueDates : Len(invoices) < 2 /\ due_charges(DB, 1) /= {} /\ CreateInvoices(1, d)
    \/ CardsOnFile = 0 /\ CreateCreditCard(1, Today)
    \/ MarkAccountAsDelinquent(1, HAS_PENDING)
    \/ PayOpenInvoicesWithRegisteredCreditCards(1)
    \/ Return

EndpointSpec == AccountsInit /\ [][EndpointNext]_vars

\* ------------------------------------------------------------------ claims
\* What a step of assign_funds_to_invoice(i) starts from and what it did.
Applicable(i) ==
    /\ invoices[i].status = PENDING
    /\ Cardinality(DOMAIN InvoiceDue(DB, i)) = 1

DueCurrency(i) == CHOOSE cur \in DOMAIN InvoiceDue(DB, i) : TRUE
DueBefore(i) == InvoiceDue(DB, i)[DueCurrency(i)]

\* The funds the call may use, as the rows were before it.
CreditsBefore(i) ==
    {c \in DOMAIN charges :
        /\ ~charges[c].deleted /\ charges[c].amount < 0
        /\ charges[c].invoice = NoInvoice
        /\ charges[c].account = invoices[i].account
        /\ charges[c].currency = DueCurrency(i)}

PaymentsBefore(i) ==
    {t \in DOMAIN transactions :
        /\ transactions[t].success /\ transactions[t].amount > 0
        /\ transactions[t].invoice = NoInvoice
        /\ transactions[t].account = invoices[i].account
        /\ transactions[t].currency = DueCurrency(i)}

AssignedCredits(i) == {c \in CreditsBefore(i) : charges'[c].invoice = i}
AssignedPayments(i) == {t \in PaymentsBefore(i) : transactions'[t].invoice = i}

RECURSIVE SumAbs(_, _)
SumAbs(tbl, S) ==
    IF S = {} THEN 0
    ELSE LET x == CHOOSE y \in S : TRUE IN Abs(tbl[x].amount) + SumAbs(tbl, S \ {x})

AssignedSum(i) ==
    SumAbs(charges, AssignedCredits(i)) + SumAbs(transactions, AssignedPayments(i))

\* What the newest assigned fund contributed: the fund the loop stopped at.
LastContribution(i) ==
    IF AssignedPayments(i) /= {}
    THEN LET t == CHOOSE x \in AssignedPayments(i) :
                     \A y \in AssignedPayments(i) :
                         transactions[y].created <= transactions[x].created
         IN Abs(transactions[t].amount)
    ELSE LET c == CHOOSE x \in AssignedCredits(i) :
                     \A y \in AssignedCredits(i) : charges[y].created <= charges[x].created
         IN Abs(charges[c].amount)

LogFollowsOrder(log) ==
    \A k, l \in DOMAIN log :
        k < l =>
            \/ log[k].fund_type = "Charge" /\ log[l].fund_type = "Transaction"
            \/ /\ log[k].fund_type = "Charge" /\ log[l].fund_type = "Charge"
               /\ charges[log[k].fund_id].created < charges[log[l].fund_id].created
            \/ /\ log[k].fund_type = "Transaction" /\ log[l].fund_type = "Transaction"
               /\ transactions[log[k].fund_id].created
                      < transactions[log[l].fund_id].created

LogIds(log, kind) ==
    {log[k].fund_id : k \in {j \in DOMAIN log : log[j].fund_type = kind}}

C1_Step(i) ==
    (Applicable(i) /\ DueBefore(i) > 0) =>
        LET AC == AssignedCredits(i)
            AP == AssignedPayments(i)
        IN  \* a fund is assigned to this invoice or stays unassigned
            /\ \A c \in CreditsBefore(i) : charges'[c].invoice \in {NoInvoice, i}
            /\ \A t \in PaymentsBefore(i) : transactions'[t].invoice \in {NoInvoice, i}
            \* oldest first within the credits and within the payments
            /\ \A c1 \in CreditsBefore(i), c2 \in AC :
                   charges[c1].created < charges[c2].created => c1 \in AC
            /\ \A t1 \in PaymentsBefore(i), t2 \in AP :
                   transactions[t1].created < transactions[t2].created => t1 \in AP
            \* every credit before any payment
            /\ AP /= {} => AC = CreditsBefore(i)
            \* the loop goes on while money is due and stops when none is
            /\ (AC \cup AP /= {}) =>
                   DueBefore(i) - (AssignedSum(i) - LastContribution(i)) > 0
            /\ (AC /= CreditsBefore(i) \/ AP /= PaymentsBefore(i)) =>
                   DueBefore(i) - AssignedSum(i) <= 0
            \* the log lists the assigned funds in the order they were applied
            /\ LogFollowsOrder(last'.log)
            /\ LogIds(last'.log, "Charge") = AC
            /\ LogIds(last'.log, "Transaction") = AP
            /\ Len(last'.log) = Cardinality(AC) + Cardinality(AP)

\* C1: on a PENDING single-currency invoice with due > 0, assign_funds_to_invoice
\* applies the unassigned same-currency funds credits first (oldest first), then
\* successful payments (oldest first), whatever the creation time of a credit
\* relative to a payment; it stops at the first fund after which the remaining
\* due is <= 0, and the funds after that point stay unassigned.
C1_FundOrder ==
    [][last'.op = "assign_funds_to_invoice" => C1_Step(last'.arg)]_vars

\* A credit was applied and the call stopped there, leaving an older successful
\* payment of the same currency unassigned.
C1_Witness ==
    /\ last.op = "assign_funds_to_invoice"
    /\ last.result
    /\ Len(last.log) = 1
    /\ last.log[1].fund_type = "Charge"
    /\ \E t \in DOMAIN transactions :
           /\ transactions[t].success /\ transactions[t].invoice = NoInvoice
           /\ transactions[t].currency = charges[last.log[1].fund_id].currency
           /\ transactions[t].created < charges[last.log[1].fund_id].created

NewCharges == (DOMAIN charges') \ (DOMAIN charges)

RestAfter(i) == DueBefore(i) - AssignedSum(i)

C2_Step(i) ==
    Applicable(i) =>
        LET cf == {c \in NewCharges : charges'[c].product_code = CARRIED_FORWARD}
            cr == {c \in NewCharges : charges'[c].product_code = CREDIT_REMAINING}
        IN IF RestAfter(i) < 0
           THEN /\ invoices'[i].status = PAID
                /\ InvoiceDue(DBn, i) = [cur \in {DueCurrency(i)} |-> 0]
                /\ Cardinality(NewCharges) = 2
                /\ Cardinality(cf) = 1
                /\ \A c \in cf : /\ charges'[c].amount = -RestAfter(i)
                                 /\ charges'[c].currency = DueCurrency(i)
                                 /\ charges'[c].invoice = i
                                 /\ charges'[c].account = invoices[i].account
                                 /\ ~charges'[c].deleted
                /\ Cardinality(cr) = 1
                /\ \A c \in cr : /\ charges'[c].amount = RestAfter(i)
                                 /\ charges'[c].currency = DueCurrency(i)
                                 /\ charges'[c].invoice = NoInvoice
                                 /\ charges'[c].account = invoices[i].account
                                 /\ ~charges'[c].deleted
           ELSE NewCharges = {}

\* C2: when the funds assigned by assign_funds_to_invoice exceed the due amount
\* by X > 0, the invoice ends PAID with due() = 0, exactly one new charge of +X
\* coded CARRIED_FORWARD is linked to the invoice and exactly one new charge of
\* -X coded CREDIT_REMAINING is unassigned on the account; when the remaining due
\* is 0 or positive no charge is created.
C2_CarryForward ==
    [][last'.op = "assign_funds_to_invoice" => C2_Step(last'.arg)]_vars

\* A call assigned a payment larger than the due amount: the invoice is PAID and
\* holds a CARRIED_FORWARD charge, and a CREDIT_REMAINING credit is unassigned.
C2_Witness ==
    /\ last.op = "assign_funds_to_invoice"
    /\ last.result
    /\ Len(last.log) > 0
    /\ \E c \in DOMAIN charges :
           /\ charges[c].product_code = CARRIED_FORWARD
           /\ charges[c].invoice = last.arg
    /\ \E c \in DOMAIN charges :
           /\ charges[c].product_code = CREDIT_REMAINING
           /\ charges[c].invoice = NoInvoice

C3_Returns(i) == last'.result <=> (invoices'[i].status = PAID)

C3_Marks(i) ==
    Applicable(i) =>
        LET available == SumAbs(charges, CreditsBefore(i))
                         + SumAbs(transactions, PaymentsBefore(i))
        IN /\ (invoices'[i].status = PAID) <=> (RestAfter(i) <= 0)
           /\ invoices'[i].status \in {PENDING, PAID}
           /\ (DueBefore(i) > 0 /\ available < DueBefore(i)) =>
                  /\ AssignedCredits(i) = CreditsBefore(i)
                  /\ AssignedPayments(i) = PaymentsBefore(i)
                  /\ invoices'[i].status = PENDING
                  /\ InvoiceDue(DBn, i)
                         = [cur \in {DueCurrency(i)} |-> DueBefore(i) - available]
                  /\ ~last'.result

MatchingOps ==
    {"create_invoices", "assign_funds_to_invoice",
     "assign_funds_to_account_pending_invoices"}

C6_Step ==
    \* the balance of every account is the same, currency by currency
    /\ \A a \in Accounts :
           /\ TotalEq(AccountBalance(DBn, a), AccountBalance(DB, a))
           /\ \A cur \in Currencies :
                  TotalGet(AccountBalance(DBn, a), cur)
                      = TotalGet(AccountBalance(DB, a), cur)
    \* the rows that existed are only re-linked
    /\ \A c \in DOMAIN charges :
           charges'[c] = [charges[c] EXCEPT !.invoice = charges'[c].invoice]
    /\ DOMAIN transactions' = DOMAIN transactions
    /\ \A t \in DOMAIN transactions :
           transactions'[t] = [transactions[t] EXCEPT !.invoice = transactions'[t].invoice]
    \* the rows that are new are carried-forward pairs, which sum to zero
    /\ \A c \in NewCharges :
           charges'[c].product_code \in {CARRIED_FORWARD, CREDIT_REMAINING}
    /\ \A a \in Accounts, cur \in Currencies :
           SumAmounts(charges', {c \in NewCharges : /\ charges'[c].account = a
                                                     /\ charges'[c].currency = cur}) = 0

\* C6: create_invoices, assign_funds_to_invoice and
\* assign_funds_to_account_pending_invoices leave Account.balance() as it was,
\* per currency: they only re-link existing entries to invoices, and the
\* CARRIED_FORWARD/CREDIT_REMAINING pair of an overpayment sums to zero.
C6_BalanceConserved == [][last'.op \in MatchingOps => C6_Step]_vars

\* The account-wide matching paid an invoice and carried an overpayment forward.
C6_Witness ==
    /\ last.op = "assign_funds_to_account_pending_invoices"
    /\ Len(last.result) > 0
    /\ \E c \in DOMAIN charges :
           /\ charges[c].product_code = CREDIT_REMAINING
           /\ charges[c].invoice = NoInvoice

\* What a step of create_invoices(a, due_date) starts from and what it did.
UninvoicedBefore(a, cur) ==
    {c \in DOMAIN charges :
        /\ ~charges[c].deleted
        /\ charges[c].invoice = NoInvoice
        /\ charges[c].account = a
        /\ charges[c].currency = cur}

PositiveBefore(a, cur) == {c \in UninvoicedBefore(a, cur) : charges[c].amount > 0}

NewInvoices == (DOMAIN invoices') \ (DOMAIN invoices)

LinkedAfter(i) == {c \in DOMAIN charges' : charges'[c].invoice = i}

InvoicedCurrencies(i) == {charges'[c].currency : c \in LinkedAfter(i)}

ResultIsNewInvoices ==
    /\ {last'.result[k] : k \in DOMAIN last'.result} = NewInvoices
    /\ Len(last'.result) = Cardinality(NewInvoices)
    /\ \A i \in NewInvoices :
           /\ invoices'[i].status = PENDING
           /\ invoices'[i].due_date = last'.due_date
           /\ invoices'[i].account = last'.arg
    /\ \A i \in DOMAIN invoices : invoices'[i] = invoices[i]

\* One invoice per currency of curs, each linked to exactly the rows of
\* rows(cur), and no invoice for another currency.
Partitioned(curs, rows(_)) ==
    /\ ResultIsNewInvoices
    /\ Cardinality(NewInvoices) = Cardinality(curs)
    /\ \A cur \in curs : \E i \in NewInvoices : LinkedAfter(i) = rows(cur)
    /\ \A i \in NewInvoices : \E cur \in curs : LinkedAfter(i) = rows(cur)
    /\ \A i \in NewInvoices : Cardinality(InvoicedCurrencies(i)) <= 1

C7_NetRows(cur) == UninvoicedBefore(last'.arg, cur)
C7_NetCurrencies ==
    {cur \in Currencies : SumAmounts(charges, UninvoicedBefore(last'.arg, cur)) > 0}

C7_PositiveRows(cur) == PositiveBefore(last'.arg, cur)
C7_PositiveCurrencies ==
    {cur \in Currencies : PositiveBefore(last'.arg, cur) /= {}}

C8_Invoiced(i, cur) ==
    /\ i \in NewInvoices
    /\ cur \in InvoicedCurrencies(i)

C9_Untouched(S) ==
    /\ \A c \in S : charges'[c] = charges[c]
    /\ \A i \in NewInvoices : LinkedAfter(i) \cap S = {}

C10_Outweighed(a, cur) ==
    \E p, q \in UninvoicedBefore(a, cur) :
        /\ charges[p].amount > 0
        /\ charges[q].amount < 0
        /\ -charges[q].amount > charges[p].amount

AllReturned == \A p \in Procs : procs[p].pc = "done"

Counted(p) ==
    {[kind |-> procs[p].funds[k].kind, id |-> procs[p].funds[k].id] :
        k \in 1..procs[p].saved}

DueCovered(i) == \A cur \in DOMAIN InvoiceDue(DB, i) : InvoiceDue(DB, i)[cur] <= 0

\* C4: in every interleaving of concurrent assign_funds_to_invoice calls a
\* single unassigned fund is counted toward at most one invoice: no two invoices
\* are both marked PAID on the strength of the same fund, and no invoice ends
\* PAID while the funds linked to it leave its due amount positive.
C4_NoDoubleCount ==
    AllReturned =>
        /\ \A p, q \in Procs :
               (/\ procs[p].invoice_id /= procs[q].invoice_id
                /\ procs[p].result
                /\ procs[q].result) => Counted(p) \cap Counted(q) = {}
        /\ \A i \in DOMAIN invoices : invoices[i].status = PAID => DueCovered(i)

\* The call of process p died between two statements and no other call ran.
CrashedAlone(p) ==
    /\ procs[p].pc = "crashed"
    /\ \A q \in Procs \ {p} : procs[q].pc = "get_invoice"

\* C5: assign_funds_to_invoice is atomic with respect to failures: after a crash
\* between two of its steps the invoice is not left PENDING with assigned funds
\* that cover its due amount, nor PAID and overpaid without its
\* CARRIED_FORWARD/CREDIT_REMAINING pair.
C5_CrashAtomic ==
    \A p \in Procs :
        CrashedAlone(p) =>
            LET i == procs[p].invoice_id IN
            /\ ~(/\ invoices[i].status = PENDING
                 /\ procs[p].saved > 0
                 /\ DueCovered(i))
            /\ ~(/\ invoices[i].status = PAID
                 /\ \E cur \in DOMAIN InvoiceDue(DB, i) : InvoiceDue(DB, i)[cur] < 0
                 /\ \A c \in DOMAIN charges :
                        charges[c].invoice = i => charges[c].product_code /= CARRIED_FORWARD)

\* What create_invoices would do, called on db in any of the orders the totals
\* may come in.
SecondCalls(db, a, d) ==
    {create_invoices(db, a, d, order) :
        order \in Perms(DOMAIN total_amount(db.charges, due_charges(db, a)))}

\* C11: create_invoices called again right after create_invoices, with no charge
\* added in between, returns an empty list, creates no invoice and re-links no
\* charge; and whenever the account has no non-deleted uninvoiced charge the call
\* returns an empty list and changes nothing.
C11_Idempotent ==
    [][last'.op = "create_invoices" =>
          /\ \A d \in DueDates : \A r \in SecondCalls(DBn, last'.arg, d) :
                 r.result = <<>> /\ r.db = DBn
          /\ (\A cur \in Currencies : UninvoicedBefore(last'.arg, cur) = {}) =>
                 (last'.result = <<>> /\ DBn = DB)]_vars

\* A call found only invoiced and deleted charges, and returned nothing.
C11_Witness ==
    /\ last.op = "create_invoices"
    /\ last.result = <<>>
    /\ \E c, x \in DOMAIN charges :
           /\ charges[c].invoice /= NoInvoice /\ charges[c].amount > 0
           /\ charges[x].deleted /\ charges[x].amount > 0
    /\ \A c \in DOMAIN charges : charges[c].deleted \/ charges[c].invoice /= NoInvoice

\* C12: create_invoices is all-or-nothing: when the call fails or crashes
\* part-way, after creating the invoice of one currency and before finishing
\* another, no invoice of the call exists, no charge has been reassigned and no
\* invoice-ready notification has been sent; nothing of the call is in the
\* database before its transaction commits.
C12_AllOrNothing ==
    \A p \in Procs :
        (procs[p].pc /= "idle" /\ ~procs[p].committed) =>
            /\ DB = procs[p].start
            /\ procs[p].sent = <<>>

\* The call died after it had created the invoice of one currency and linked
\* its charges, with the other currency still to do.
C12_Witness ==
    \E p \in Procs :
        /\ procs[p].pc = "crashed"
        /\ ~procs[p].committed
        /\ Len(procs[p].invoices) = 1
        /\ procs[p].k = 2
        /\ Len(procs[p].monies) = 2
        /\ \E c \in DOMAIN procs[p].tx.charges : procs[p].tx.charges[c].invoice = 1
        /\ invoices = <<>>

\* assign_funds_to_invoice called on order[k], order[k+1], ... up to order[upto].
RECURSIVE Matched(_, _, _, _)
Matched(db, order, k, upto) ==
    IF k > upto THEN db
    ELSE Matched(assign_funds_to_invoice(db, order[k]).db, order, k + 1, upto)

Min(a, b) == IF a < b THEN a ELSE b

LinkedRows(db, i) ==
    [charges |-> {c \in DOMAIN db.charges : db.charges[c].invoice = i},
     transactions |-> {t \in DOMAIN db.transactions : db.transactions[t].invoice = i}]

C13_Step ==
    LET order == last'.order
        result == last'.result
        n == Len(last'.result)
    IN \* the PENDING invoices of the account, each once, by ascending due_date
       /\ {order[k] : k \in DOMAIN order}
              = {i \in DOMAIN invoices : /\ invoices[i].status = PENDING
                                         /\ invoices[i].account = last'.arg}
       /\ \A j, k \in DOMAIN order :
              j < k => /\ order[j] /= order[k]
                       /\ invoices[order[j]].due_date <= invoices[order[k]].due_date
       \* the result: the invoices paid before the first one that was not
       /\ n <= Len(order)
       /\ \A k \in 1..n : result[k] = order[k] /\ invoices'[order[k]].status = PAID
       /\ n < Len(order) => invoices'[order[n + 1]].status = PENDING
       \* assign_funds_to_invoice ran on these and on the first unpaid one only
       /\ DBn = Matched(DB, order, 1, Min(n + 1, Len(order)))
       /\ \A k \in (n + 2)..Len(order) :
              /\ invoices'[order[k]] = invoices[order[k]]
              /\ LinkedRows(DBn, order[k]) = LinkedRows(DB, order[k])

\* C13: assign_funds_to_account_pending_invoices takes the account's PENDING
\* invoices by ascending due_date, calls assign_funds_to_invoice on each and stops
\* at the first one that does not end PAID; it returns the invoices paid before
\* that point, in order, and touches no later invoice, even one that unassigned
\* funds of its own currency would have paid.
C13_StopsAtFirstUnpaid ==
    [][last'.op = "assign_funds_to_account_pending_invoices" => C13_Step]_vars

\* The matching stopped at an unpaid invoice; the next invoice is in another
\* currency, still PENDING, and an unassigned payment covers it.
C13_Witness ==
    /\ last.op = "assign_funds_to_account_pending_invoices"
    /\ Len(last.order) = 2
    /\ last.result = <<>>
    /\ invoices[last.order[2]].status = PENDING
    /\ \E t \in DOMAIN transactions :
           /\ transactions[t].invoice = NoInvoice
           /\ transactions[t].success
           /\ InvoiceDue(DB, last.order[2])
                  = [cur \in {transactions[t].currency} |-> transactions[t].amount]

C15_Step(i) ==
    \* a charge that changed was an eligible credit, and only its invoice changed
    /\ \A c \in DOMAIN charges :
           charges'[c] /= charges[c] =>
               /\ Applicable(i)
               /\ c \in CreditsBefore(i)
               /\ charges'[c] = [charges[c] EXCEPT !.invoice = i]
    \* a transaction that changed was an eligible payment
    /\ DOMAIN transactions' = DOMAIN transactions
    /\ \A t \in DOMAIN transactions :
           transactions'[t] /= transactions[t] =>
               /\ Applicable(i)
               /\ t \in PaymentsBefore(i)
               /\ transactions'[t] = [transactions[t] EXCEPT !.invoice = i]
    \* the funds the call reports are among the eligible ones
    /\ \A k \in DOMAIN last'.log :
           IF last'.log[k].fund_type = "Charge"
           THEN last'.log[k].fund_id \in CreditsBefore(i)
           ELSE last'.log[k].fund_id \in PaymentsBefore(i)
    \* the invoice is marked PAID on what was due and the eligible funds only
    /\ (invoices[i].status = PENDING /\ invoices'[i].status = PAID) =>
           (Applicable(i) /\ RestAfter(i) <= 0)

\* C15: assign_funds_to_invoice only assigns funds that are unassigned, belong
\* to the invoice's account, are in the invoice's currency and are a non-deleted
\* credit or a successful payment; failed transactions, refunds, funds linked to
\* another invoice, funds of another account or currency stay as they are and do
\* not count toward marking the invoice PAID.
C15_OnlyEligibleFunds ==
    [][last'.op = "assign_funds_to_invoice" => C15_Step(last'.arg)]_vars

\* A call found nothing to assign and left the invoice PENDING, although a
\* failed payment of the account and a payment of another account, both
\* unassigned and in the invoice's currency, would have covered it.
C15_Witness ==
    /\ last.op = "assign_funds_to_invoice"
    /\ ~last.result
    /\ last.log = <<>>
    /\ invoices[last.arg].status = PENDING
    /\ \E t, u \in DOMAIN transactions :
           /\ ~transactions[t].success
           /\ transactions[t].account = invoices[last.arg].account
           /\ transactions[t].invoice = NoInvoice
           /\ transactions[u].success
           /\ transactions[u].account /= invoices[last.arg].account
           /\ transactions[u].invoice = NoInvoice
           /\ InvoiceDue(DB, last.arg)
                  = [cur \in {transactions[t].currency} |-> transactions[t].amount]
           /\ InvoiceDue(DB, last.arg)
                  = [cur \in {transactions[u].currency} |-> transactions[u].amount]

\* A precondition of pay_with_account_credit_cards(i) fails in the state the
\* call starts from, for an account of that status holding those cards.
C16_Fails(i, account_status, cards) ==
    LET due == InvoiceDue(DB, i) IN
    \/ account_status = CLOSED
    \/ invoices[i].status /= PENDING
    \/ DOMAIN due = {}
    \/ Cardinality(DOMAIN due) > 1
    \/ \E cur \in DOMAIN due : due[cur] <= 0
    \/ \A k \in DOMAIN cards : cards[k][2] < Today

\* C16: pay_with_account_credit_cards raises a PreconditionError, without
\* calling the PSP, recording any Transaction or changing the invoice, when the
\* account is CLOSED, the invoice is not PENDING, the invoice's due amount is
\* empty, spans more than one currency or is <= 0, or the account has no valid
\* credit card.
C16_PreconditionsFailFast ==
    [][last'.op = "pay_with_account_credit_cards" =>
          (C16_Fails(last'.arg, last'.account_status, last'.cards) =>
               /\ last'.raised = "PreconditionError"
               /\ last'.attempts = <<>>
               /\ transactions' = transactions
               /\ invoices' = invoices
               /\ charges' = charges)]_vars

\* A call on a PENDING invoice of an open account, with a positive amount due
\* in one currency, raised because the only card on the account has expired.
C16_Witness ==
    /\ last.op = "pay_with_account_credit_cards"
    /\ last.raised = "PreconditionError"
    /\ last.message = "No valid credit card on account"
    /\ last.account_status = OPEN
    /\ Len(last.cards) = 1
    /\ invoices[last.arg].status = PENDING
    /\ InvoiceDue(DB, last.arg) = [cur \in {"CHF"} |-> 2]
    /\ transactions = <<>>

\* What a call of pay_with_account_credit_cards(i) that got past its
\* preconditions did with the cards of the account.
C17_Step(i) ==
    LET log == last'.attempts
        cards == last'.cards
        due == InvoiceDue(DB, i)
        won == {k \in DOMAIN log : log[k].outcome = "success"}
    IN
    \* only valid cards are charged, none twice, the ACTIVE ones first
    /\ \A k \in DOMAIN log : log[k].credit_card \in CreditCardValid(cards, Today)
    /\ \A j, k \in DOMAIN log :
           j < k => /\ log[j].credit_card /= log[k].credit_card
                    /\ ~(cards[log[j].credit_card][1] = INACTIVE
                           /\ cards[log[k].credit_card][1] = ACTIVE)
    /\ \A k \in DOMAIN log :
           cards[log[k].credit_card][1] = INACTIVE =>
               \A c \in CreditCardValid(cards, Today) :
                   cards[c][1] = ACTIVE => \E j \in 1..(k - 1) : log[j].credit_card = c
    \* at most one charge succeeds, and it is the last attempt of the call
    /\ Cardinality(won) <= 1
    /\ \A k \in won : k = Len(log)
    \* without a success every valid card was tried
    /\ won = {} => Len(log) = Cardinality(CreditCardValid(cards, Today))
    \* the success is returned: a new successful Transaction linked to the
    \* invoice, of the amount that was due, and the invoice is PAID with due 0
    /\ IF won = {} THEN last'.result = None
       ELSE LET payment == last'.result IN
            /\ payment = log[Len(log)].payment
            /\ payment \in (DOMAIN transactions') \ (DOMAIN transactions)
            /\ transactions'[payment].success
            /\ transactions'[payment].invoice = i
            /\ transactions'[payment].account = invoices[i].account
            /\ due = [cur \in {transactions'[payment].currency} |->
                         transactions'[payment].amount]
            /\ invoices[i].status = PENDING
            /\ invoices'[i].status = PAID
            /\ \A cur \in DOMAIN InvoiceDue(DBn, i) : InvoiceDue(DBn, i)[cur] = 0

\* C17: pay_with_account_credit_cards tries the account's ACTIVE valid cards
\* before its INACTIVE ones; at the first card whose PSP charge succeeds it
\* marks the invoice PAID, returns that successful Transaction (linked to the
\* invoice, with amount equal to the invoice's due amount, so that due()
\* becomes 0) and attempts no further card, so one call produces at most one
\* successful charge.
C17_ActiveFirstOneSuccess ==
    [][(last'.op = "pay_with_account_credit_cards" /\ last'.raised = "") =>
          C17_Step(last'.arg)]_vars

\* The account holds a valid INACTIVE card, registered first, and a valid
\* ACTIVE card: the call charged the ACTIVE card only, successfully, and the
\* invoice, of which 1 was already paid, is PAID.
C17_Witness ==
    /\ last.op = "pay_with_account_credit_cards"
    /\ last.cards = <<<<INACTIVE, 1>>, <<ACTIVE, 1>>>>
    /\ Len(last.attempts) = 1
    /\ last.attempts[1].credit_card = 2
    /\ last.result = 2
    /\ Len(transactions) = 2
    /\ transactions[1].success
    /\ transactions[2].success
    /\ invoices[last.arg].status = PAID

\* The rows a call added to the table of transactions, oldest first.
NewTransactions == SubSeq(transactions', Len(transactions) + 1, Len(transactions'))

\* The attempts of a call the PSP answered, in the order they were made.
Answered(log) == SelectSeq(log, LAMBDA a : a.outcome /= "throws")

\* One row per attempt of log, in order: successful exactly when the PSP
\* reported success, linked to invoice i and of the amount that was due.
C18_Recorded(i, log) ==
    /\ Len(NewTransactions) = Len(log)
    /\ \A k \in DOMAIN log :
           /\ NewTransactions[k].success = (log[k].outcome = "success")
           /\ NewTransactions[k].invoice = i
           /\ NewTransactions[k].account = invoices[i].account
           /\ InvoiceDue(DB, i)
                  = [cur \in {NewTransactions[k].currency} |-> NewTransactions[k].amount]
           /\ log[k].payment = Len(transactions) + k

C19_Step(i) ==
    LET log == last'.attempts
        valid == CreditCardValid(last'.cards, Today)
    IN
    \* nothing is raised once a card was attempted
    /\ last'.raised = ""
    \* after an attempt that threw, the next valid card is tried
    /\ \A k \in DOMAIN log :
           (log[k].outcome = "throws" /\ k < Cardinality(valid)) => k + 1 \in DOMAIN log
    \* no success at all: every valid card was tried, None is returned and the
    \* invoice is still PENDING
    /\ (\A k \in DOMAIN log : log[k].outcome /= "success") =>
           /\ {log[k].credit_card : k \in DOMAIN log} = valid
           /\ last'.result = None
           /\ invoices[i].status = PENDING
           /\ invoices' = invoices

\* C19: an exception thrown by an individual card attempt never propagates out
\* of pay_with_account_credit_cards: the next card is tried, and when every
\* card attempt fails (by PSP failure or by exception) the call returns None
\* without raising and the invoice remains PENDING.
C19_ExceptionsContained ==
    [][(last'.op = "pay_with_account_credit_cards" /\ last'.attempts /= <<>>) =>
          C19_Step(last'.arg)]_vars

\* The charge of the first card threw, the second card was tried and its charge
\* threw too: the call returned None and the invoice is PENDING.
C19_Witness ==
    /\ last.op = "pay_with_account_credit_cards"
    /\ last.raised = ""
    /\ last.result = None
    /\ Len(last.attempts) = 2
    /\ last.attempts[1].outcome = "throws"
    /\ last.attempts[2].outcome = "throws"
    /\ last.attempts[1].credit_card /= last.attempts[2].credit_card
    /\ invoices[last.arg].status = PENDING

\* The call of process p obtained a successful PSP charge.
Won(p) ==
    /\ "attempts" \in DOMAIN procs[p]
    /\ \E k \in DOMAIN procs[p].attempts : procs[p].attempts[k].outcome = "success"

\* C20 as stated: two concurrent pay_with_account_credit_cards calls on the
\* same invoice are serialized by the row lock: at most one of them obtains a
\* successful PSP charge, and the other observes the invoice as no longer
\* PENDING and fails its precondition without charging any card.
C20_AsStated ==
    /\ Cardinality({p \in Procs : Won(p)}) <= 1
    /\ \A p, q \in Procs :
           (p /= q /\ Won(p) /\ procs[p].pc = "done" /\ procs[q].pc = "done") =>
               /\ procs[q].invoice.status /= PENDING
               /\ procs[q].raised = "PreconditionError"
               /\ procs[q].attempts = <<>>

\* C20: two concurrent pay_with_account_credit_cards calls on the same invoice
\* are serialized by the exclusive row lock on the invoice: in every
\* interleaving at most one of them obtains a successful PSP charge for that
\* invoice, and a call that takes the lock after the successful one observes
\* the invoice as no longer PENDING and fails its precondition without charging
\* any card.
C20_OneChargePerInvoice ==
    /\ Cardinality({p \in Procs : HoldsLock(p, 1)}) <= 1
    /\ Cardinality({p \in Procs : Won(p)}) <= 1
    /\ \A p, q \in Procs :
           (Won(p) /\ procs[q].turn > procs[p].turn) =>
               /\ procs[q].invoice.status /= PENDING
               /\ procs[q].attempts = <<>>
               /\ procs[q].pc \in {"preconditions", "done"}
               /\ procs[q].pc = "done" => procs[q].raised = "PreconditionError"
    /\ (\A p \in Procs : procs[p].pc = "done") =>
           Cardinality({t \in DOMAIN transactions :
                           transactions[t].success /\ transactions[t].invoice = 1}) <= 1

\* Both calls have ended: the first to take the lock charged a card
\* successfully, the second raised PreconditionError without an attempt, and
\* the ledger holds one successful Transaction.
C20_Witness ==
    \E p, q \in Procs :
        /\ procs[p].pc = "done"
        /\ procs[q].pc = "done"
        /\ procs[p].turn = 1
        /\ procs[q].turn = 2
        /\ Won(p)
        /\ procs[p].result /= None
        /\ procs[q].raised = "PreconditionError"
        /\ procs[q].attempts = <<>>
        /\ invoices[1].status = PAID

\* C21: in every interleaving of a pay_with_account_credit_cards call and an
\* assign_funds_to_invoice call running concurrently on the same PENDING
\* invoice, the invoice is paid at most once: it never ends with both a
\* successful card charge for the full due amount and unassigned funds newly
\* assigned to it for that same due amount, and its status is set to PAID by
\* only one of the two calls.
C21_PaidOnce ==
    AllReturned =>
        \A p, q \in Procs :
            (Won(p) /\ procs[q].pc = "done" /\ "saved" \in DOMAIN procs[q]) =>
                /\ procs[q].saved = 0
                /\ ~procs[q].result
                /\ \A cur \in DOMAIN InvoiceDue(DB, 1) : InvoiceDue(DB, 1)[cur] = 0

\* The cards of the table that have not expired, and those of them that are
\* ACTIVE.
Unexpired(cards) == {k \in DOMAIN cards : cards[k][2] >= Today}
UnexpiredActive(cards) == {k \in Unexpired(cards) : cards[k][1] = ACTIVE}

\* C22 as stated: a credit card counts as valid for payment only if it is both
\* unexpired and ACTIVE: pay_with_account_credit_cards never charges an
\* INACTIVE card, and raises the no-valid-card PreconditionError when the
\* account's only unexpired cards are INACTIVE.
C22_AsStated ==
    [][last'.op = "pay_with_account_credit_cards" =>
          /\ \A k \in DOMAIN last'.attempts :
                 last'.cards[last'.attempts[k].credit_card][1] = ACTIVE
          /\ (last'.cards /= <<>> /\ UnexpiredActive(last'.cards) = {}) =>
                 /\ last'.raised = "PreconditionError"
                 /\ last'.message = "No valid credit card on account"]_vars

\* C22: a credit card counts as valid for payment if it is unexpired
\* (expiry_date >= the as-of date), whatever its status:
\* pay_with_account_credit_cards never charges an expired card, charges an
\* unexpired INACTIVE card once the unexpired ACTIVE ones have failed, and
\* raises the no-valid-card PreconditionError exactly when the account has no
\* unexpired card.
C22_UnexpiredIsValid ==
    [][last'.op = "pay_with_account_credit_cards" =>
          /\ \A k \in DOMAIN last'.attempts :
                 last'.cards[last'.attempts[k].credit_card][2] >= Today
          /\ (last'.message = "No valid credit card on account")
                 <=> (/\ ~C16_Fails(last'.arg, last'.account_status,
                                    <<<<ACTIVE, Today>>>>)
                      /\ Unexpired(last'.cards) = {})
          /\ (last'.raised = "" /\ UnexpiredActive(last'.cards) = {}) =>
                 /\ last'.attempts /= <<>>
                 /\ last'.cards[last'.attempts[1].credit_card][1] = INACTIVE]_vars

\* The account holds an expired ACTIVE card and an unexpired INACTIVE card: the
\* INACTIVE card was charged, successfully, and the invoice is PAID.
C22_Witness ==
    /\ last.op = "pay_with_account_credit_cards"
    /\ last.cards = <<<<ACTIVE, 0>>, <<INACTIVE, 1>>>>
    /\ Len(last.attempts) = 1
    /\ last.attempts[1].credit_card = 2
    /\ last.attempts[1].outcome = "success"
    /\ invoices[last.arg].status = PAID

\* C23: invoice status only moves PENDING->PAID or PENDING->CANCELLED: once an
\* invoice is PAID or CANCELLED, no sequence of create_invoices,
\* assign_funds_to_invoice, assign_funds_to_account_pending_invoices,
\* pay_with_account_credit_cards, add_charge or cancel_charge calls changes its
\* status or links any further fund to it.
C23_TerminalStatus ==
    [][\A i \in DOMAIN invoices :
          invoices[i].status \in {PAID, CANCELLED} =>
              /\ invoices'[i] = invoices[i]
              /\ LinkedRows(DBn, i) = LinkedRows(DB, i)]_vars

\* pay_with_account_credit_cards was called on a CANCELLED invoice with a
\* positive amount due, for an open account with a valid card, while an
\* unassigned payment was waiting: the invoice is still CANCELLED.
C23_Witness ==
    /\ last.op = "pay_with_account_credit_cards"
    /\ last.account_status = OPEN
    /\ last.message = "Cannot pay invoice with status"
    /\ invoices[last.arg].status = CANCELLED
    /\ \E cur \in DOMAIN InvoiceDue(DB, last.arg) : InvoiceDue(DB, last.arg)[cur] > 0
    /\ \E t \in DOMAIN transactions :
           transactions[t].invoice = NoInvoice /\ transactions[t].success

\* Charge c has a reversal in the table of charges, deleted or not.
Reversed(tbl, c) == \E r \in DOMAIN tbl : tbl[r].reverses = c

\* What cancel_charge(c) did to a charge that was neither deleted nor reversed.
C24_Step(c) ==
    /\ last'.result = "ok"
    /\ transactions' = transactions
    /\ invoices' = invoices
    /\ IF charges[c].invoice = NoInvoice
       THEN charges' = [charges EXCEPT ![c].deleted = TRUE]
       ELSE /\ Len(charges') = Len(charges) + 1
            /\ \A k \in DOMAIN charges : charges'[k] = charges[k]
            /\ LET new == charges'[Len(charges')] IN
               /\ new.account = charges[c].account
               /\ new.amount = -charges[c].amount
               /\ new.currency = charges[c].currency
               /\ new.invoice = NoInvoice
               /\ new.product_code = REVERSAL_PRODUCT_CODE
               /\ new.reverses = c
               /\ ~new.deleted

\* C24: cancel_charge on a charge that is neither soft-deleted nor already
\* reversed: if the charge is uninvoiced it is soft-deleted (deleted=true) and
\* no new row is created; if it is linked to an invoice it is left unchanged
\* and exactly one new uninvoiced charge is created on the same account with
\* the negated amount, product code REVERSAL and reverses pointing at the
\* original.
C24_DeleteOrReverse ==
    [][last'.op = "cancel_charge" =>
          ((~charges[last'.arg].deleted /\ ~Reversed(charges, last'.arg)) =>
               C24_Step(last'.arg))]_vars

\* An invoiced charge of account 2 was cancelled: the ledger ends with its
\* reversal, an uninvoiced credit of account 2.
C24_Witness ==
    /\ last.op = "cancel_charge"
    /\ last.result = "ok"
    /\ charges[last.arg].invoice /= NoInvoice
    /\ charges[last.arg].account = 2
    /\ ~charges[last.arg].deleted
    /\ charges[Len(charges)].reverses = last.arg
    /\ charges[Len(charges)].amount = -charges[last.arg].amount
    /\ charges[Len(charges)].account = 2

\* The reversals of charge c.
Reversals(tbl, c) == {r \in DOMAIN tbl : tbl[r].reverses = c}

\* Charge c was cancelled: soft-deleted or reversed.
Cancelled(tbl, c) == tbl[c].deleted \/ Reversals(tbl, c) /= {}

\* C25: cancel_charge raises ChargeAlreadyCancelledError and changes nothing
\* when the charge is already soft-deleted or already has a reversal;
\* consequently, after any sequence of cancel_charge calls every charge has at
\* most one reversal, and a second cancel of the same charge always fails.
C25_CancelOnce ==
    /\ [](\A c \in DOMAIN charges : Cardinality(Reversals(charges, c)) <= 1)
    /\ [][/\ \A c \in DOMAIN charges : Cancelled(charges, c) => Cancelled(charges', c)
          /\ last'.op = "cancel_charge" =>
                 IF Cancelled(charges, last'.arg)
                 THEN /\ last'.result = "ChargeAlreadyCancelledError"
                      /\ DBn = DB
                 ELSE /\ last'.result = "ok"
                      /\ Cancelled(charges', last'.arg)]_vars

\* The second cancel of an invoiced charge failed: the charge has its one
\* reversal, created by the first cancel, and no row was added.
C25_Witness ==
    /\ last.op = "cancel_charge"
    /\ last.result = "ChargeAlreadyCancelledError"
    /\ ~charges[last.arg].deleted
    /\ charges[last.arg].invoice /= NoInvoice
    /\ Cardinality(Reversals(charges, last.arg)) = 1
    /\ Len(charges) = 2

\* C26: in every state reachable through any sequence or interleaving of
\* add_charge, cancel_charge, create_invoices and assign_funds_to_invoice
\* calls, no charge is both soft-deleted and linked to an invoice: a charge is
\* soft-deleted only while uninvoiced, and a soft-deleted charge is never picked
\* up by invoice generation or fund matching, so cancelling a charge never
\* changes the due amount of an existing invoice.
C26_DeletedNeverInvoiced ==
    /\ [](\A c \in DOMAIN charges :
              ~(charges[c].deleted /\ charges[c].invoice /= NoInvoice))
    /\ [][\A p \in Procs :
              (procs[p].pc = "cancel" /\ procs'[p].pc = "done") =>
                  \A i \in DOMAIN invoices : InvoiceDue(DBn, i) = InvoiceDue(DB, i)]_vars

\* C27: get_accounts_which_delinquent_status_has_to_change reports an account
\* as newly delinquent iff it has at least one violation reason and is not
\* flagged delinquent, as newly compliant iff it has no reason and is flagged,
\* and in neither list otherwise; the two lists are disjoint, and the
\* evaluation changes no account flag and writes no EventLog.
C27_Reasons(a) ==
    get_reasons_account_is_violating_delinquent_criteria(DB, credit_cards, a)

C27_Step ==
    LET new_delinquent == last'.result.new_delinquent_account_ids
        new_compliant == last'.result.new_compliant_account_ids IN
    /\ new_delinquent \cup new_compliant \subseteq last'.arg
    /\ \A a \in last'.arg :
        /\ a \in new_delinquent <=> (Len(C27_Reasons(a)) >= 1 /\ ~accounts[a].delinquent)
        /\ a \in new_compliant <=> (Len(C27_Reasons(a)) = 0 /\ accounts[a].delinquent)
    /\ new_delinquent \cap new_compliant = {}
    /\ accounts' = accounts
    /\ event_logs' = event_logs

C27_EligibilityOnly ==
    [][last'.op = "get_accounts_which_delinquent_status_has_to_change" => C27_Step]_vars

\* Both accounts evaluated: account 1 is flagged and has nothing pending and a
\* valid card, account 2 is not flagged and has no card.
C27_Witness ==
    /\ last.op = "get_accounts_which_delinquent_status_has_to_change"
    /\ last.arg = AccountIds
    /\ last.result.new_compliant_account_ids = {1}
    /\ last.result.new_delinquent_account_ids = {2}
    /\ event_logs /= <<>>

\* C28: under the simple criterion an account violates the criterion solely
\* when it has at least one PENDING invoice and no valid credit card; with
\* pending invoices and a valid card, or with no pending invoice and no card,
\* it has no violation reason.
C28_HasPending(a) ==
    \E i \in DOMAIN invoices : invoices[i].account = a /\ invoices[i].status = PENDING

C28_HasUnexpiredCard(a) ==
    \E k \in DOMAIN credit_cards[a] : credit_cards[a][k][2] >= Today

C28_AsStated ==
    [][last'.op = "get_reasons_account_is_violating_delinquent_criteria" =>
           (last'.result /= <<>> <=>
               (C28_HasPending(last'.arg) /\ ~C28_HasUnexpiredCard(last'.arg)))]_vars

\* As the code has it: a pending invoice is a reason and the lack of an
\* unexpired card, of any status, is another reason, each on its own.
C28_EitherReason ==
    [][last'.op = "get_reasons_account_is_violating_delinquent_criteria" =>
           /\ last'.result /= <<>> <=>
                  (C28_HasPending(last'.arg) \/ ~C28_HasUnexpiredCard(last'.arg))
           /\ (\E n \in DOMAIN last'.result : last'.result[n] = HAS_PENDING)
                  <=> C28_HasPending(last'.arg)
           /\ (\E n \in DOMAIN last'.result : last'.result[n] = NO_VALID_CARD)
                  <=> ~C28_HasUnexpiredCard(last'.arg)]_vars

\* An account with a pending invoice and an unexpired card is in violation.
C28_Witness ==
    /\ last.op = "get_reasons_account_is_violating_delinquent_criteria"
    /\ C28_HasPending(last.arg)
    /\ C28_HasUnexpiredCard(last.arg)
    /\ last.result = <<HAS_PENDING>>

\* C29: under the threshold criterion an account is flagged delinquent iff its
\* PENDING-invoice count is >= the unpaid-invoice threshold, or it has PENDING
\* invoices and the days elapsed since the pending invoice are >= the days
\* threshold, or it owes more than its currency's threshold; an account with no
\* pending invoice and no debt is never flagged, and PAID invoices do not count.
C29_Pending == {i \in DOMAIN invoices : invoices[i].account = last'.arg
                                         /\ invoices[i].status = PENDING}

C29_Owes == -TotalGet(AccountBalance(DB, last'.arg), "CHF")

C29_AsStated ==
    [][last'.op = "account_hast_to_be_marked_as_delinquent" =>
           /\ last'.result \in {"True", "False"}
           /\ last'.result = "True" <=>
                  \/ Cardinality(C29_Pending) >= last'.unpaid_invoices_threshold
                  \/ /\ C29_Pending /= {}
                     /\ last'.days >= last'.days_since_last_unpaid_threshold
                  \/ C29_Owes > last'.currency_amount_threshold]_vars

\* C30: charge_credit_card and refund_payment of the PSP gateway fail with a
\* precondition error when the amount is <= 0, before any registered PSP
\* implementation is invoked.
C30_AsStated ==
    [][(last'.op \in {"charge_credit_card", "refund_payment"} /\ last'.amount <= 0) =>
           (last'.raised = "PreconditionError" /\ psp_calls' = psp_calls)]_vars

\* C31: charge_credit_card and refund_payment for a discriminator with no
\* registered implementation fail with the not-registered error and invoke no
\* implementation; after register(d, p) the calls for d are dispatched to p;
\* after unregister(d) the discriminator is not registered again; unregistering
\* a discriminator that is not registered raises and leaves the registry as it
\* was.
C31_Scheme == SubSeq(last'.arg, 1, FirstColon(last'.arg) - 1)

C31_Call ==
    IF C31_Scheme \in DOMAIN psp_registry
    THEN /\ last'.raised = ""
         /\ Len(psp_calls') = Len(psp_calls) + 1
         /\ SubSeq(psp_calls', 1, Len(psp_calls)) = psp_calls
         /\ psp_calls'[Len(psp_calls')].psp = psp_registry[C31_Scheme]
         /\ psp_calls'[Len(psp_calls')].method = last'.op
    ELSE /\ last'.raised = "Exception"
         /\ psp_calls' = psp_calls

C31_Register ==
    /\ DOMAIN psp_registry' = DOMAIN psp_registry \cup {last'.arg}
    /\ psp_registry'[last'.arg] = last'.psp
    /\ \A s \in DOMAIN psp_registry : s /= last'.arg => psp_registry'[s] = psp_registry[s]

C31_Unregister ==
    IF last'.arg \in DOMAIN psp_registry
    THEN /\ last'.raised = ""
         /\ DOMAIN psp_registry' = DOMAIN psp_registry \ {last'.arg}
         /\ \A s \in DOMAIN psp_registry' : psp_registry'[s] = psp_registry[s]
    ELSE /\ last'.raised = "Exception"
         /\ psp_registry' = psp_registry

C32_InvalidNames == {<<"1", "a">>, <<"_">>}

C32_Step ==
    (\/ last'.product_code = <<>>
     \/ DOMAIN last'.product_properties \cap C32_InvalidNames /= {})
        => /\ last'.raised = "ValidationError"
           /\ charges' = charges
           /\ product_properties' = product_properties

C32_ValidationLeavesNoRow == [][last'.op = "add_charge" => C32_Step]_vars

\* A call with a valid product code and one valid and one invalid property
\* name is refused after an earlier call stored a charge with a property.
C32_Witness ==
    /\ last.op = "add_charge"
    /\ last.raised = "ValidationError"
    /\ last.product_code = <<"A", "B", "C", "1">>
    /\ DOMAIN last.product_properties = {<<"B">>, <<"1", "a">>}
    /\ Len(charges) = 1
    /\ Len(product_properties) = 1

\* C33: Account.status changes only from OPEN to CLOSED by close and from
\* CLOSED to OPEN by reopen, CreditCard.status only from ACTIVE to INACTIVE by
\* deactivate and from INACTIVE to ACTIVE by reactivate; a transition asked
\* from the wrong state raises an error and leaves the stored status unchanged.
C33_AccountStep(a) ==
    /\ accounts'[a].status /= accounts[a].status =>
           \/ /\ last' = [op |-> "close", arg |-> a, raised |-> ""]
              /\ accounts[a].status = OPEN /\ accounts'[a].status = CLOSED
           \/ /\ last' = [op |-> "reopen", arg |-> a, raised |-> ""]
              /\ accounts[a].status = CLOSED /\ accounts'[a].status = OPEN
    /\ (last'.op = "close" /\ last'.arg = a) =>
           IF accounts[a].status = OPEN
           THEN last'.raised = "" /\ accounts'[a].status = CLOSED
           ELSE last'.raised = "TransitionNotAllowed" /\ accounts' = accounts
    /\ (last'.op = "reopen" /\ last'.arg = a) =>
           IF accounts[a].status = CLOSED
           THEN last'.raised = "" /\ accounts'[a].status = OPEN
           ELSE last'.raised = "TransitionNotAllowed" /\ accounts' = accounts

C33_CardStep(a, k) ==
    /\ credit_cards'[a][k][1] /= credit_cards[a][k][1] =>
           \/ /\ last' = [op |-> "deactivate", arg |-> <<a, k>>, raised |-> ""]
              /\ credit_cards[a][k][1] = ACTIVE /\ credit_cards'[a][k][1] = INACTIVE
           \/ /\ last' = [op |-> "reactivate", arg |-> <<a, k>>, raised |-> ""]
              /\ credit_cards[a][k][1] = INACTIVE /\ credit_cards'[a][k][1] = ACTIVE
    /\ (last'.op = "deactivate" /\ last'.arg = <<a, k>>) =>
           IF credit_cards[a][k][1] = ACTIVE
           THEN last'.raised = "" /\ credit_cards'[a][k][1] = INACTIVE
           ELSE last'.raised = "TransitionNotAllowed" /\ credit_cards' = credit_cards
    /\ (last'.op = "reactivate" /\ last'.arg = <<a, k>>) =>
           IF credit_cards[a][k][1] = INACTIVE
           THEN last'.raised = "" /\ credit_cards'[a][k][1] = ACTIVE
           ELSE last'.raised = "TransitionNotAllowed" /\ credit_cards' = credit_cards

C33_StatusMachines ==
    [][/\ \A a \in AccountIds : C33_AccountStep(a)
       /\ \A a \in AccountIds : \A k \in DOMAIN credit_cards[a] : C33_CardStep(a, k)]_vars

\* Closing account 1 is refused: it is closed already, and delinquent, and its
\* card is inactive.
C33_Witness ==
    /\ last = [op |-> "close", arg |-> 1, raised |-> "TransitionNotAllowed"]
    /\ accounts[1].status = CLOSED
    /\ accounts[1].delinquent
    /\ credit_cards[1] /= <<>>
    /\ credit_cards[1][1][1] = INACTIVE

\* C34: Invoice.due() is the per-currency sum of the non-deleted charges linked
\* to the invoice minus the per-currency sum of the successful transactions
\* linked to it, and may be negative; Account.balance() is the account's
\* successful transactions minus its non-deleted charges; failed transactions
\* and soft-deleted charges contribute to neither.
C34_Charges(cur, invoice_id, account_id) ==
    SumAmounts(charges, {c \in DOMAIN charges :
                            /\ ~charges[c].deleted
                            /\ charges[c].currency = cur
                            /\ invoice_id /= NoInvoice => charges[c].invoice = invoice_id
                            /\ account_id /= 0 => charges[c].account = account_id})

C34_Transactions(cur, invoice_id, account_id) ==
    SumAmounts(transactions, {t \in DOMAIN transactions :
                            /\ transactions[t].success
                            /\ transactions[t].currency = cur
                            /\ invoice_id /= NoInvoice => transactions[t].invoice = invoice_id
                            /\ account_id /= 0 => transactions[t].account = account_id})

C34_DueAndBalance ==
    [][/\ last'.op = "due" =>
              /\ DOMAIN last'.result \subseteq Currencies
              /\ \A cur \in Currencies :
                     TotalGet(last'.result, cur) =
                         C34_Charges(cur, last'.arg, 0) - C34_Transactions(cur, last'.arg, 0)
       /\ last'.op = "balance" =>
              /\ DOMAIN last'.result \subseteq Currencies
              /\ \A cur \in Currencies :
                     TotalGet(last'.result, cur) =
                         C34_Transactions(cur, NoInvoice, last'.arg)
                             - C34_Charges(cur, NoInvoice, last'.arg)]_vars

\* The balance of an account that has a cancelled charge and a failed payment
\* besides a charge that counts.
C34_Witness ==
    /\ last.op = "balance"
    /\ last.result = [cur \in {"CHF"} |-> -1]
    /\ \E c \in DOMAIN charges : charges[c].deleted /\ charges[c].currency = "CHF"
    /\ \E t \in DOMAIN transactions : ~transactions[t].success

\* C35: for all Totals a and b, a + b - b == a, a - a is falsy and equal to 0,
\* Total() == 0, and a Total equals the same Total with one more currency
\* whose amount is zero.
C35_Amount(t, cur) == TotalItem(t, cur)[1]
C35_TotalIdentities ==
    [][last'.op = "arithmetic" =>
          /\ last'.add_sub_eq
          /\ \A cur \in Currencies : C35_Amount(last'.add_sub, cur) = C35_Amount(last'.a, cur)
          /\ ~total_bool(last'.self_sub)
          /\ last'.self_sub_eq_zero
          /\ last'.empty_eq_zero
          /\ last'.padded_eq \subseteq {TRUE}]_vars
C35_Witness ==
    /\ last.op = "arithmetic"
    /\ total_bool(last.a) /\ total_bool(last.b)
    /\ DOMAIN last.b.by_currency \ DOMAIN last.a.by_currency /= {}
    /\ last.padded_eq = {TRUE}
    /\ last.add_sub_eq
    /\ Len(last.add_sub.money_obs) > Len(last.a.money_obs)

\* C36: a Total holds at most one Money per currency. Constructing one from a
\* sequence that repeats a currency raises an error; the results of +, -,
\* unary - and abs hold every currency of the operands exactly once, the
\* currencies whose result is zero included; the operands stay as they were.
C36_Repeats(money_obs) == \E j, k \in DOMAIN money_obs : j /= k /\ money_obs[j][2] = money_obs[k][2]
C36_CurrenciesOf(t) == {t.money_obs[k][2] : k \in DOMAIN t.money_obs}
C36_OncePerCurrency(t, curs) == t.raised = "" /\ ~C36_Repeats(t.money_obs) /\ C36_CurrenciesOf(t) = curs
C37_PaidIsSettled ==
    AllReturned =>
        \A i \in DOMAIN invoices : invoices[i].status = PAID => i \notin audit_closed_invoices(DB)

\* C38: mark_account_as_delinquent and mark_account_as_compliant change the
\* flag and append exactly one EventLog entry of their type only when the flag
\* flips, and do nothing otherwise; so on accounts that started compliant with
\* an empty log the entries of an account alternate NEW_DELINQUENT,
\* NEW_COMPLIANT, ..., no entry is modified or removed, and an account is
\* delinquent iff its last entry is NEW_DELINQUENT.
C38_Entries(a) == SelectSeq(event_logs, LAMBDA e : e.account = a)
C38_Flips(a, from, type) ==
    IF accounts[a].delinquent = from
    THEN /\ accounts' = [accounts EXCEPT ![a].delinquent = ~from]
         /\ Len(event_logs') = Len(event_logs) + 1
         /\ event_logs'[Len(event_logs')].account = a
         /\ event_logs'[Len(event_logs')].type = type
         /\ event_logs'[Len(event_logs')].text \in MarkReasons
    ELSE UNCHANGED <<accounts, event_logs>>
C38_FlipLogsOnce ==
    /\ [](\A a \in AccountIds :
             /\ \A k \in DOMAIN C38_Entries(a) :
                    C38_Entries(a)[k].type = IF k % 2 = 1 THEN NEW_DELINQUENT ELSE NEW_COMPLIANT
             /\ accounts[a].delinquent <=>
                    /\ C38_Entries(a) /= <<>>
                    /\ C38_Entries(a)[Len(C38_Entries(a))].type = NEW_DELINQUENT)
    /\ [][/\ Len(event_logs') >= Len(event_logs)
          /\ SubSeq(event_logs', 1, Len(event_logs)) = event_logs
          /\ last'.op = "mark_account_as_delinquent" => C38_Flips(last'.arg, FALSE, NEW_DELINQUENT)
          /\ last'.op = "mark_account_as_compliant" => C38_Flips(last'.arg, TRUE, NEW_COMPLIANT)]_vars
C38_Witness ==
    /\ last.op = "mark_account_as_compliant"
    /\ ~accounts[1].delinquent
    /\ Len(C38_Entries(1)) = 2
    /\ C38_Entries(1)[2].type = NEW_COMPLIANT

\* C39: one non-dry run of update_delinquents flips to compliant every account
\* that is flagged delinquent and meets no criterion any more, flips to
\* delinquent every unflagged account that meets one, and leaves every other
\* flag as it was; the accounts it reports as to be marked legal again are all
\* flagged delinquent; a dry run changes no flag.
C39_Meets(a) ==
    account_hast_to_be_marked_as_delinquent(DB, a, last'.unpaid_invoices_threshold, last'.days_since_last_unpaid_threshold, last'.days[a])
C39_AsStated ==
    [][(last'.op = "update_delinquents" /\ last'.raised = "") =>
          /\ last'.new_legal_accounts_ids \subseteq {a \in AccountIds : accounts[a].delinquent}
          /\ last'.dry_run => accounts' = accounts
          /\ ~last'.dry_run =>
                \A a \in AccountIds :
                    accounts'[a] =
                        IF accounts[a].delinquent /\ C39_Meets(a) = "False"
                        THEN [accounts[a] EXCEPT !.delinquent = FALSE]
                        ELSE IF ~accounts[a].delinquent /\ C39_Meets(a) = "True"
                        THEN [accounts[a] EXCEPT !.delinquent = TRUE]
                        ELSE accounts[a]]_vars

\* The currency of an invoice that holds charges of one currency.
C40_Currency(db, i) == CHOOSE c \in DOMAIN InvoiceDue(db, i) : TRUE
\* The endpoint flips the account to compliant only if no PENDING invoice of
\* the account is left afterwards.
C40_FlipNeedsNoPending ==
    (accounts[last'.arg].delinquent /\ ~accounts'[last'.arg].delinquent) =>
        AccountPendingInvoices(DBn, last'.arg) = {}

\* C40 as stated: in the pay-open-invoices endpoint the unassigned funds are
\* matched to the pending invoices before any card is charged, so a card is
\* charged only for the part of an invoice's due amount that the unassigned
\* funds of the invoice's currency do not cover; and the account is flipped to
\* compliant only if no PENDING invoice is left.
C40_AsStated ==
    [][last'.op = "pay_open_invoices_with_registered_credit_cards" =>
          /\ \A k \in DOMAIN last'.attempts :
                LET att == last'.attempts[k] IN
                /\ att.amount.amount = InvoiceDue(last'.matched, att.invoice_id)[att.amount.currency]
                /\ CollectFunds(att.before, last'.arg, att.amount.currency) = <<>>
          /\ C40_FlipNeedsNoPending]_vars

\* C40, amended: a card is charged the due amount the matching left on the
\* invoice; funds of the invoice's currency are still unassigned at that moment
\* only when the matching stopped at an earlier pending invoice of another
\* currency.
C40_ChargesWhatMatchingLeft ==
    [][last'.op = "pay_open_invoices_with_registered_credit_cards" =>
          /\ \E order \in PendingByDueDate(last'.before, last'.arg) :
                last'.matched = assign_funds_to_account_pending_invoices(last'.before, order).db
          /\ \A k \in DOMAIN last'.attempts :
                LET att == last'.attempts[k]
                    i == att.invoice_id IN
                /\ att.amount.amount = InvoiceDue(last'.matched, i)[att.amount.currency]
                /\ att.amount.amount > 0
                /\ CollectFunds(att.before, last'.arg, att.amount.currency) /= <<>> =>
                      \E j \in AccountPendingInvoices(last'.matched, last'.arg) :
                          /\ j /= i
                          /\ last'.matched.invoices[j].due_date <= last'.matched.invoices[i].due_date
                          /\ C40_Currency(last'.matched, j) /= att.amount.currency
          /\ C40_FlipNeedsNoPending]_vars
C40_Witness ==
    /\ last.op = "pay_open_invoices_with_registered_credit_cards"
    /\ last.matched /= last.before
    /\ \E k \in DOMAIN last.attempts : last.attempts[k].outcome = "success"
    /\ last.success
    /\ Len(event_logs) = 2
    /\ event_logs[2].type = NEW_COMPLIANT

====
